---- MODULE Spec2Model ----
(***************************************************************************)
(* A model of fsck.exfat (hclee/exfat-tools): one run of the checker over  *)
(* a small exFAT volume.  The volume (boot sectors, FAT, allocation        *)
(* bitmap, directory clusters) is the device state; the in-memory exfat    *)
(* context, the dentry iterator and the statistics are the program state.  *)
(***************************************************************************)
EXTENDS Integers, Sequences, FiniteSets, TLC

VARIABLES
    pc,            \* position of main()
    options,       \* exfat_fsck.options: the repair mode
    fault,         \* the I/O fault of the device in this run
    boot,          \* on-disk boot regions: [main, backup], each [valid, vol_dirty, perc_in_use]
    fat,           \* on-disk FAT: cluster -> successor
    bitmap_dev,    \* on-disk allocation bitmap, one bit per slot of its bytes
    dirs,          \* on-disk directory data: cluster -> sequence of dentries
    bs,            \* exfat->bs, the in-memory copy of the boot sector
    alloc_bitmap,  \* exfat->alloc_bitmap
    disk_bitmap,   \* exfat->disk_bitmap, the snapshot read by read_bitmap
    root,          \* exfat->root
    dir_list,      \* exfat->dir_list
    de_iter,       \* fsck->de_iter: [parent, clus, buf, pos, dirty, end_ret]
    dirty,         \* exfat_fsck.dirty
    dirty_fat,     \* exfat_fsck.dirty_fat
    exfat_stat,    \* [dir_count, file_count, error_count, fixed_count]
    ret,           \* main()'s ret
    exit_code,     \* main()'s exit code
    hist,          \* observations of the run used by the properties
    call,          \* the arguments of the library call under way, if any
    result,        \* what that call has returned
    webos          \* the webOS wrapper: its timer, its child and its statuses

vars == <<pc, options, fault, boot, fat, bitmap_dev, dirs, bs, alloc_bitmap,
          disk_bitmap, root, dir_list, de_iter, dirty, dirty_fat, exfat_stat,
          ret, exit_code, hist, call, result, webos>>

(***************************************************************************)
(* Bounds of the model.                                                    *)
(***************************************************************************)
NClus == 7          \* bsx.clu_count: heap clusters 2 .. NClus + 1
ClusSize == 4       \* exfat->clus_size in bytes
SectSize == 2       \* exfat->sect_size in bytes
ClusBits == 8       \* width of clus_t in the model
MaxErr == 3         \* cap of exfat_stat.error_count

(***************************************************************************)
(* Program constants.                                                      *)
(***************************************************************************)
EXFAT_FIRST_CLUSTER == 2
EXFAT_FREE_CLUSTER == 0
EXFAT_EOF_CLUSTER == 2 ^ ClusBits - 1

EINVAL == 22
EIO == 5

FSCK_EXIT_NO_ERRORS == 0
FSCK_EXIT_CORRECTED == 1
FSCK_EXIT_ERRORS_LEFT == 4
FSCK_EXIT_OPERATION_ERROR == 8

ATTR_SUBDIR == 16
EXFAT_SF_CONTIGUOUS == 2

\* dentry type bytes
EXFAT_LAST == 0
EXFAT_BITMAP == 129
EXFAT_UPCASE == 130
EXFAT_VOLUME == 131
EXFAT_FILE == 133
EXFAT_STREAM == 192
EXFAT_NAME == 193
VOLUME_LABEL_MAX_LEN == 11
ENTRY_NAME_MAX == 15
MIN_FILE_DENTRIES == 3
DENTRY_SIZE == 32

Modes == {"ask", "yes", "no", "auto"}

\* FSCK_OPTS_REPAIR_WRITE: any mode that may write
RepairWrite(mode) == mode \in {"ask", "yes", "auto"}

Min(a, b) == IF a < b THEN a ELSE b

\* Op at the value of v, with v evaluated once
Bind(v, Op(_)) == CHOOSE r \in {Op(x) : x \in {v}} : TRUE
DIV_ROUND_UP(n, d) == (n + d - 1) \div d

HeapClusters == EXFAT_FIRST_CLUSTER .. (EXFAT_FIRST_CLUSTER + NClus - 1)

heap_clus(clus) ==
    clus >= EXFAT_FIRST_CLUSTER /\ (clus - EXFAT_FIRST_CLUSTER) < NClus

\* The slots of the bitmap's bytes: the heap clusters and the padding bits of
\* the last byte.
BitmapSlots ==
    EXFAT_FIRST_CLUSTER .. (EXFAT_FIRST_CLUSTER + 8 * DIV_ROUND_UP(NClus, 8) - 1)

exfat_bitmap_get(bmap, c) == c \in DOMAIN bmap /\ bmap[c]

\* a faulty exfat_bitmap_set that marks nothing
exfat_bitmap_set_lost(bmap, c) == bmap

exfat_bitmap_set(bmap, c) ==
    IF c \in DOMAIN bmap THEN [bmap EXCEPT ![c] = TRUE] ELSE bmap

exfat_bitmap_set_range(bmap, start_clus, count) ==
    IF ~heap_clus(start_clus) \/ ~heap_clus(start_clus + count)
    THEN bmap
    ELSE [c \in DOMAIN bmap |->
            IF c >= start_clus /\ c < start_clus + count THEN TRUE ELSE bmap[c]]

(***************************************************************************)
(* Dentries.  A dentry is a record of the fields fsck reads; Bytes lays    *)
(* the 32 bytes out as on disk (little-endian).                            *)
(***************************************************************************)
Dentry(t) ==
    [type |-> t, num_ext |-> 0, checksum |-> 0, attr |-> 0, flags |-> 0,
     valid_size |-> 0, start_clu |-> 0, size |-> 0]

LastDe == Dentry(EXFAT_LAST)

\* little-endian bytes of v, n of them
RECURSIVE LE(_, _)
LE(v, n) == IF n = 0 THEN <<>> ELSE <<v % 256>> \o LE(v \div 256, n - 1)

Zeros(n) == [i \in 1 .. n |-> 0]

\* the little-endian bytes of a sequence of 16-bit units
RECURSIVE Units(_)
Units(us) == IF us = <<>> THEN <<>> ELSE LE(Head(us), 2) \o Units(Tail(us))

\* (a dentry that fsck only reads carries no timestamps, a name of one unit
\* and no name hash; a dentry made by the builder carries them as fields)
Bytes(de) ==
    IF de.type = EXFAT_FILE
    THEN <<de.type, de.num_ext>> \o LE(de.checksum, 2) \o LE(de.attr, 2)
         \o (IF "now" \in DOMAIN de
             THEN <<0, 0>> \o LE(de.now.time, 2) \o LE(de.now.date, 2)
                  \o LE(de.now.time, 2) \o LE(de.now.date, 2)
                  \o LE(de.now.time, 2) \o LE(de.now.date, 2)
                  \o <<de.now.time_ms, de.now.time_ms, de.now.tz, de.now.tz,
                       de.now.tz>> \o Zeros(7)
             ELSE Zeros(26))
    ELSE IF de.type = EXFAT_STREAM
    THEN <<de.type, de.flags, 0>>
         \o (IF "name_len" \in DOMAIN de
             THEN <<de.name_len>> \o LE(de.name_hash, 2) \o <<0, 0>>
             ELSE <<1, 0, 0, 0, 0>>)
         \o LE(de.valid_size, 8)
         \o Zeros(4) \o LE(de.start_clu, 4) \o LE(de.size, 8)
    ELSE IF de.type = EXFAT_NAME
    THEN IF "unicode_0_14" \in DOMAIN de
         THEN <<de.type, 0>> \o Units(de.unicode_0_14)
         ELSE <<de.type, 0, 65, 0>> \o Zeros(28)
    ELSE <<de.type, de.num_ext>> \o Zeros(18) \o LE(de.start_clu, 4)
         \o LE(de.size, 8)

\* one step of the checksum: rotate right by one, add the byte, 16 bits
Rot(chk, byte) == ((chk % 2) * 32768 + chk \div 2 + byte) % 65536

RECURSIVE SumBytes(_, _, _, _)
SumBytes(chk, bytes, i, skip) ==
    IF i > Len(bytes) THEN chk
    ELSE CHOOSE r \in
            {SumBytes(c, bytes, i + 1, skip) :
                c \in {IF i \in skip THEN chk ELSE Rot(chk, bytes[i])}} : TRUE

\* (the CHOOSE binds the bytes of the dentry to their value, once)
exfat_calc_dentry_checksum(dentry, checksum, primary) ==
    CHOOSE r \in
        {SumBytes(checksum, b, 1, IF primary THEN {3, 4} ELSE {}) :
            b \in {Bytes(dentry)}} : TRUE

IS_EXFAT_DELETED(t) == t < 128

(***************************************************************************)
(* The repair policy.  ans is the operator's answer per problem code, read *)
(* in ask mode only.                                                       *)
(***************************************************************************)
Codes ==
    {"ER_BS_BOOT_REGION", "ER_DE_CHECKSUM", "ER_FILE_VALID_SIZE",
     "ER_FILE_INVALID_CLUS", "ER_FILE_FIRST_CLUS", "ER_FILE_SMALLER_SIZE",
     "ER_FILE_LARGER_SIZE", "ER_FILE_DUPLICATED_CLUS", "ER_FILE_ZERO_NOFAT"}

SafeCodes == {"ER_DE_CHECKSUM", "ER_FILE_VALID_SIZE", "ER_FILE_ZERO_NOFAT"}

TruncateCodes ==
    {"ER_FILE_INVALID_CLUS", "ER_FILE_FIRST_CLUS", "ER_FILE_SMALLER_SIZE",
     "ER_FILE_LARGER_SIZE", "ER_FILE_DUPLICATED_CLUS"}

exfat_repair_ask(code, ans) ==
    CASE options = "yes" -> TRUE
      [] options = "no" -> FALSE
      [] options = "auto" -> code \in SafeCodes
      [] OTHER -> ans[code]

\* The answers that can differ in the current mode.  One call of
\* check_clus_chain asks one truncation code at most, so one answer stands
\* for all of them.
Answers ==
    IF options = "ask"
    THEN {a \in [Codes -> BOOLEAN] : \A c, d \in TruncateCodes : a[c] = a[d]}
    ELSE {[c \in Codes |-> FALSE]}

(***************************************************************************)
(* The device.  A read of FAT slot c fails when the fault is a bad FAT     *)
(* sector at c; a write of a kind fails when the device was opened         *)
(* read-only (repair-no) or the fault is a write fault of that kind.       *)
(***************************************************************************)
NoFault == [kind |-> "none", at |-> 0]

FatReadFails(clus) == fault = [kind |-> "fatread", at |-> clus]

WriteOk(kind) ==
    RepairWrite(options) /\ fault # [kind |-> "write_" \o kind, at |-> 0]

get_next_clus(clus) ==
    IF ~heap_clus(clus) THEN [ret |-> -EINVAL, next |-> EXFAT_EOF_CLUSTER]
    ELSE IF FatReadFails(clus) THEN [ret |-> -EIO, next |-> EXFAT_EOF_CLUSTER]
    ELSE [ret |-> 0, next |-> fat[clus]]

get_inode_next_clus(node, clus) ==
    IF node.is_contiguous
    THEN IF ~heap_clus(clus)
         THEN [ret |-> -EINVAL, next |-> EXFAT_EOF_CLUSTER]
         ELSE [ret |-> 0, next |-> clus + 1]
    ELSE get_next_clus(clus)

\* a faulty set_fat that reports success without writing the slot
set_fat_unwritten(clus, next_clus) == [ret |-> 0, w |-> <<>>]

\* set_fat: the write it issues and its return value
set_fat(clus, next_clus) ==
    [ret |-> IF WriteOk("fat") THEN 0 ELSE -EIO,
     w |-> <<[clus |-> clus, val |-> next_clus]>>]

(***************************************************************************)
(* check_clus_chain.  Walk is its while loop; the result says how the loop *)
(* was left: "end" (fell out of the loop), "truncate" (goto truncate_file) *)
(* or "einval" (a declined repair), with the code that was asked.          *)
(***************************************************************************)
RECURSIVE Walk(_, _, _, _, _, _)
Walk(node, clus, prev, count, alloc, ans) ==
    LET max_count == DIV_ROUND_UP(node.size, ClusSize)
        Ask(code) ==
            [out |-> IF exfat_repair_ask(code, ans) THEN "truncate" ELSE "einval",
             prev |-> prev, count |-> count, alloc |-> alloc, code |-> code]
        Leave(how) ==
            [out |-> how, prev |-> prev, count |-> count, alloc |-> alloc,
             code |-> "none"]
        r == get_inode_next_clus(node, clus)
    IN  IF clus = EXFAT_EOF_CLUSTER THEN Leave("end")
        ELSE IF count >= max_count
        THEN IF node.is_contiguous THEN Leave("end")
             ELSE Ask("ER_FILE_SMALLER_SIZE")
        ELSE IF exfat_bitmap_get(alloc, clus) THEN Ask("ER_FILE_DUPLICATED_CLUS")
        ELSE IF ~exfat_bitmap_get(disk_bitmap, clus) THEN Ask("ER_FILE_INVALID_CLUS")
        ELSE IF r.ret # 0 THEN Leave("truncate")
        ELSE IF ~node.is_contiguous /\ ~heap_clus(r.next)
                /\ r.next # EXFAT_EOF_CLUSTER
        THEN Ask("ER_FILE_INVALID_CLUS")
        ELSE Walk(node, r.next, clus, count + 1, exfat_bitmap_set(alloc, clus), ans)

\* a faulty truncation that leaves valid_size as it was
truncate_stream_unclamped(stream_de, tsize, prev) ==
    [stream_de EXCEPT
        !.start_clu = IF ~heap_clus(prev) THEN EXFAT_FREE_CLUSTER ELSE @,
        !.size = tsize]

\* the stream dentry as the truncate_file label rewrites it
truncate_stream(stream_de, tsize, prev) ==
    [stream_de EXCEPT
        !.valid_size = IF tsize < @ THEN tsize ELSE @,
        !.start_clu = IF ~heap_clus(prev) THEN EXFAT_FREE_CLUSTER ELSE @,
        !.size = tsize]

\* The result of check_clus_chain: ret, the node and the stream dentry as
\* left, the bitmap, whether the stream dentry was fetched dirty, the FAT
\* write issued, the code asked and whether it was accepted.
check_clus_chain(node, stream_de, alloc, ans) ==
    LET max_count == DIV_ROUND_UP(node.size, ClusSize)
        first_wrong ==
            \/ node.size = 0 /\ node.first_clus # EXFAT_FREE_CLUSTER
            \/ node.size > 0 /\ ~heap_clus(node.first_clus)
        Asked(code, w) ==
            [w EXCEPT !.out = IF exfat_repair_ask(code, ans) THEN "truncate"
                              ELSE "einval",
                      !.code = code]
        Loop ==
            IF first_wrong
            THEN Asked("ER_FILE_FIRST_CLUS",
                       [out |-> "end", prev |-> EXFAT_EOF_CLUSTER, count |-> 0,
                        alloc |-> alloc, code |-> "none"])
            ELSE Walk(node, node.first_clus, EXFAT_EOF_CLUSTER, 0, alloc, ans)
        AfterLoop(w) ==
            IF w.out = "end" /\ w.count < max_count
            THEN Asked("ER_FILE_LARGER_SIZE", w) ELSE w
        Leave(l) ==
            LET Result(rv, n, de, got, fw) ==
                    [ret |-> rv, node |-> n, stream_de |-> de, alloc |-> l.alloc,
                     got_dirty |-> got, fat_w |-> fw, code |-> l.code,
                     accepted |-> l.code # "none" /\ l.out = "truncate"]
                tsize == l.count * ClusSize
                tnode == [node EXCEPT
                            !.size = tsize,
                            !.first_clus = IF ~heap_clus(l.prev)
                                           THEN EXFAT_FREE_CLUSTER ELSE @]
                tde == truncate_stream(stream_de, tsize, l.prev)
                sf == set_fat(l.prev, EXFAT_EOF_CLUSTER)
            IN  IF l.out = "einval" THEN Result(-EINVAL, node, stream_de, FALSE, <<>>)
                ELSE IF l.out = "end" THEN Result(0, node, stream_de, FALSE, <<>>)
                ELSE IF ~node.is_contiguous /\ heap_clus(l.prev)
                THEN Result(sf.ret, tnode, tde, TRUE, sf.w)
                ELSE Result(1, tnode, tde, TRUE, <<>>)
    IN  IF node.size = 0 /\ node.first_clus = EXFAT_FREE_CLUSTER
        THEN [ret |-> 0, node |-> node, stream_de |-> stream_de, alloc |-> alloc,
              got_dirty |-> FALSE, fat_w |-> <<>>, code |-> "none",
              accepted |-> FALSE]
        ELSE Bind(Bind(Loop, AfterLoop), Leave)

(***************************************************************************)
(* The dentry iterator: buf is the directory's dentries along its cluster  *)
(* chain, pos the current dentry (index 0 of the window), dirty the        *)
(* dentries fetched with get_dirty and not yet flushed.                    *)
(***************************************************************************)
exfat_de_iter_get(iter, ith) ==
    IF iter.pos + ith <= Len(iter.buf)
    THEN [ret |-> 0, dentry |-> iter.buf[iter.pos + ith]]
    ELSE [ret |-> iter.end_ret, dentry |-> LastDe]

HasFlag(flags, bit) == (flags \div bit) % 2 = 1

alloc_exfat_inode(attr) ==
    [first_clus |-> 0, size |-> 0, is_contiguous |-> FALSE, attr |-> attr,
     parent |-> 0]

\* file_calc_checksum over the set at the window, as the buffer holds it
\* (the CHOOSE binds the running checksum to its value before the next dentry)
RECURSIVE SetChecksum(_, _, _, _)
SetChecksum(buf, pos, i, checksum) ==
    IF i > buf[pos].num_ext \/ pos + i > Len(buf) THEN checksum
    ELSE CHOOSE r \in
            {SetChecksum(buf, pos, i + 1, c) :
                c \in {exfat_calc_dentry_checksum(buf[pos + i], checksum, i = 0)}} :
            TRUE

file_calc_checksum(buf, pos) == SetChecksum(buf, pos, 0, 0)

\* a faulty checksum repair that leaves the stored checksum as it was
store_checksum_stale(buf, pos, checksum) == buf

\* the checksum written into the primary dentry of the set at pos
store_checksum(buf, pos, checksum) == [buf EXCEPT ![pos].checksum = checksum]

\* The result of check_inode: ret, the node, the buffer and the bitmap as
\* left, the dentries fetched dirty, the FAT write issued, the codes of the
\* repairs accepted and what check_clus_chain returned.
check_inode(node, buf, pos, alloc, ans) ==
    LET Checked(cc) ==
            LET n == cc.node
                buf1 == [buf EXCEPT ![pos + 1] = cc.stream_de]
                too_big == n.size > NClus * ClusSize
                zero_nofat == n.size = 0 /\ n.is_contiguous
                fix_nofat == zero_nofat /\ exfat_repair_ask("ER_FILE_ZERO_NOFAT", ans)
                buf2 == IF fix_nofat
                        THEN [buf1 EXCEPT ![pos + 1].flags = @ - EXFAT_SF_CONTIGUOUS]
                        ELSE buf1
                bad_dir == HasFlag(n.attr, ATTR_SUBDIR) /\ n.size % ClusSize # 0
                chain_code == IF cc.accepted THEN {cc.code} ELSE {}
                Summed(checksum) ==
                    LET bad_sum == checksum # buf2[pos].checksum
                        fix_sum == bad_sum /\ exfat_repair_ask("ER_DE_CHECKSUM", ans)
                        valid == /\ ~too_big
                                 /\ (zero_nofat => fix_nofat)
                                 /\ ~bad_dir
                                 /\ (bad_sum => fix_sum)
                    IN  [ret |-> IF ~valid THEN -EINVAL
                                 ELSE IF fix_nofat \/ fix_sum THEN 1 ELSE cc.ret,
                         node |-> n,
                         buf |-> IF fix_sum THEN store_checksum(buf2, pos, checksum)
                                 ELSE buf2,
                         alloc |-> cc.alloc,
                         got_dirty |-> (IF cc.got_dirty \/ fix_nofat THEN {pos + 1}
                                        ELSE {})
                                       \cup (IF fix_sum THEN {pos} ELSE {}),
                         fat_w |-> cc.fat_w,
                         accepted |-> chain_code
                                      \cup (IF fix_nofat THEN {"ER_FILE_ZERO_NOFAT"}
                                            ELSE {})
                                      \cup (IF fix_sum THEN {"ER_DE_CHECKSUM"} ELSE {}),
                         chain_ret |-> cc.ret]
            IN  IF cc.ret < 0
                THEN [ret |-> cc.ret, node |-> n, buf |-> buf1, alloc |-> cc.alloc,
                      got_dirty |-> IF cc.got_dirty THEN {pos + 1} ELSE {},
                      fat_w |-> cc.fat_w, accepted |-> chain_code,
                      chain_ret |-> cc.ret]
                ELSE Bind(file_calc_checksum(buf2, pos), Summed)
    IN  Bind(check_clus_chain(node, buf[pos + 1], alloc, ans), Checked)

\* The result of read_file_dentries: ret, the node read, *skip_dentries as
\* left (dentry_count on entry is 1), the buffer, the dentries fetched
\* dirty and the codes of the repairs accepted.
read_file_dentries(iter, ans) ==
    LET file_de == exfat_de_iter_get(iter, 0)
        stream_g == exfat_de_iter_get(iter, 1)
        stream_de == stream_g.dentry
        num_ext == file_de.dentry.num_ext
        bad_name == \E i \in 2 .. num_ext :
                        \/ exfat_de_iter_get(iter, i).ret # 0
                        \/ exfat_de_iter_get(iter, i).dentry.type # EXFAT_NAME
        node == [alloc_exfat_inode(file_de.dentry.attr) EXCEPT
                    !.first_clus = stream_de.start_clu,
                    !.is_contiguous = HasFlag(stream_de.flags, EXFAT_SF_CONTIGUOUS),
                    !.size = stream_de.size]
        bad_valid == node.size < stream_de.valid_size
        fix_valid == bad_valid /\ exfat_repair_ask("ER_FILE_VALID_SIZE", ans)
        Fail(skip) ==
            [ret |-> -EINVAL, node |-> node, skip |-> skip, buf |-> iter.buf,
             got_dirty |-> {}, accepted |-> {}]
    IN  IF file_de.ret # 0 \/ file_de.dentry.type # EXFAT_FILE THEN Fail(1)
        ELSE IF stream_g.ret # 0 \/ stream_de.type # EXFAT_STREAM THEN Fail(1)
        ELSE IF num_ext < 2 THEN Fail(1)
        ELSE IF bad_name THEN Fail(0)
        ELSE IF bad_valid /\ ~fix_valid THEN Fail(0)
        ELSE [ret |-> 0, node |-> node, skip |-> num_ext + 1,
              buf |-> IF fix_valid
                      THEN [iter.buf EXCEPT ![iter.pos + 1].valid_size = stream_de.size]
                      ELSE iter.buf,
              got_dirty |-> IF fix_valid THEN {iter.pos + 1} ELSE {},
              accepted |-> IF fix_valid THEN {"ER_FILE_VALID_SIZE"} ELSE {}]

\* The result of read_file: ret, the node (ret >= 0), dentry_count, and
\* everything check_inode left.
read_file(iter, alloc, ans) ==
    LET Inode(rd, ci) ==
            [ret |-> IF ci.ret < 0 THEN -EINVAL ELSE ci.ret, node |-> ci.node,
             dentry_count |-> rd.skip, buf |-> ci.buf, alloc |-> ci.alloc,
             got_dirty |-> rd.got_dirty \cup ci.got_dirty, fat_w |-> ci.fat_w,
             accepted |-> rd.accepted \cup ci.accepted, chain_ret |-> ci.chain_ret]
        Dentries(rd) ==
            IF rd.ret # 0
            THEN [ret |-> rd.ret, node |-> rd.node, dentry_count |-> rd.skip,
                  buf |-> rd.buf, alloc |-> alloc, got_dirty |-> rd.got_dirty,
                  fat_w |-> <<>>, accepted |-> rd.accepted, chain_ret |-> -EINVAL]
            ELSE Bind(check_inode(rd.node, rd.buf, iter.pos, alloc, ans),
                      LAMBDA ci : Inode(rd, ci))
    IN  Bind(read_file_dentries(iter, ans), Dentries)

(***************************************************************************)
(* The volumes fsck is run on: a clean layout, or a clean layout with one  *)
(* corruption (a FAT slot, a bitmap bit, a dentry field or a boot region). *)
(***************************************************************************)
RootClus == EXFAT_FIRST_CLUSTER
BitmapClus == EXFAT_FIRST_CLUSTER + 1
UpcaseClus == EXFAT_FIRST_CLUSTER + 2
FirstFileClus == EXFAT_FIRST_CLUSTER + 3

Reseal(item) == [item EXCEPT ![1].checksum = file_calc_checksum(item, 1)]

FileSet(attr, flags, start, size) ==
    Reseal(<<[Dentry(EXFAT_FILE) EXCEPT !.num_ext = 2, !.attr = attr],
             [Dentry(EXFAT_STREAM) EXCEPT !.flags = flags, !.valid_size = size,
                                          !.start_clu = start, !.size = size],
             Dentry(EXFAT_NAME)>>)

BitmapItem ==
    <<[Dentry(EXFAT_BITMAP) EXCEPT !.start_clu = BitmapClus,
                                   !.size = DIV_ROUND_UP(NClus, 8)]>>
UpcaseItem ==
    <<[Dentry(EXFAT_UPCASE) EXCEPT !.start_clu = UpcaseClus, !.size = 2]>>
VolumeItem == <<[Dentry(EXFAT_VOLUME) EXCEPT !.num_ext = 3]>>

CleanBoot ==
    [valid |-> TRUE, vol_dirty |-> FALSE, perc_in_use |-> 50]

NoItems == [c \in HeapClusters |-> <<>>]
SysFat == [c \in HeapClusters |->
             IF c < FirstFileClus THEN EXFAT_EOF_CLUSTER ELSE EXFAT_FREE_CLUSTER]
Bits(used) == [c \in BitmapSlots |-> c \in used]
SysClus == {RootClus, BitmapClus, UpcaseClus}
F == FirstFileClus

\* a FAT-chained file of two clusters and a contiguous file of two clusters
LayoutFiles ==
    [fat |-> [SysFat EXCEPT ![F] = F + 1, ![F + 1] = EXFAT_EOF_CLUSTER],
     bitmap |-> Bits(SysClus \cup {F, F + 1, F + 2, F + 3}),
     items |-> [NoItems EXCEPT ![RootClus] =
                  <<VolumeItem, BitmapItem, UpcaseItem,
                    FileSet(0, 1, F, 2 * ClusSize - 1),
                    FileSet(0, 3, F + 2, 2 * ClusSize),
                    <<LastDe>>>>]]

\* a directory holding a file of two clusters, an empty file, the volume
\* label after them, a free cluster
LayoutSubdir ==
    [fat |-> [SysFat EXCEPT ![F] = EXFAT_EOF_CLUSTER, ![F + 1] = F + 2,
                            ![F + 2] = EXFAT_EOF_CLUSTER],
     bitmap |-> Bits(SysClus \cup {F, F + 1, F + 2}),
     items |-> [NoItems EXCEPT
                  ![RootClus] = <<BitmapItem, UpcaseItem,
                                  FileSet(ATTR_SUBDIR, 1, F, ClusSize),
                                  FileSet(0, 1, 0, 0),
                                  VolumeItem,
                                  <<LastDe>>>>,
                  ![F] = <<FileSet(0, 1, F + 1, ClusSize + 1), <<LastDe>>>>]]

\* a freshly formatted volume
LayoutEmpty ==
    [fat |-> SysFat, bitmap |-> Bits(SysClus),
     items |-> [NoItems EXCEPT ![RootClus] =
                  <<BitmapItem, UpcaseItem, <<LastDe>>>>]]

Layouts == {LayoutFiles, LayoutSubdir, LayoutEmpty}

\* the FAT slots that a chain of a layout goes through, and the values a
\* corrupted slot takes: free, end of chain, past the heap, another chain
FatSlots == {RootClus} \cup (FirstFileClus .. (FirstFileClus + 3))

FatValues ==
    {EXFAT_FREE_CLUSTER, EXFAT_EOF_CLUSTER, EXFAT_FIRST_CLUSTER + NClus, RootClus}
    \cup (FirstFileClus .. (FirstFileClus + 2))

SizeValues ==
    {0, 1, ClusSize, ClusSize + 1, 2 * ClusSize, 3 * ClusSize, NClus * ClusSize + 1}

StartValues ==
    {EXFAT_FREE_CLUSTER, RootClus, EXFAT_FIRST_CLUSTER + NClus}
    \cup (FirstFileClus .. (EXFAT_FIRST_CLUSTER + NClus - 1))

\* the corrupted forms of one item of a directory
ItemCorruptions(item) ==
    LET t == item[1].type
    IN  IF t = EXFAT_FILE
        THEN {Reseal([item EXCEPT ![2].size = v]) : v \in SizeValues}
             \cup {Reseal([item EXCEPT ![2].start_clu = v]) : v \in StartValues}
             \cup {Reseal([item EXCEPT ![2].valid_size = item[2].size + 1]),
                   Reseal([item EXCEPT ![2].flags =
                              IF HasFlag(@, EXFAT_SF_CONTIGUOUS)
                              THEN @ - EXFAT_SF_CONTIGUOUS
                              ELSE @ + EXFAT_SF_CONTIGUOUS]),
                   Reseal([item EXCEPT ![1].attr =
                              IF HasFlag(@, ATTR_SUBDIR) THEN @ - ATTR_SUBDIR
                              ELSE @ + ATTR_SUBDIR]),
                   [item EXCEPT ![1].checksum = (@ + 1) % 65536],
                   Reseal([item EXCEPT ![1].num_ext = 1]),
                   Reseal([item EXCEPT ![1].num_ext = 3]),
                   [item EXCEPT ![2].type = EXFAT_NAME],
                   [item EXCEPT ![3].type = EXFAT_STREAM]}
        ELSE IF t = EXFAT_BITMAP
        THEN {[item EXCEPT ![1].start_clu = 0], [item EXCEPT ![1].size = 0]}
        ELSE IF t = EXFAT_UPCASE
        THEN {[item EXCEPT ![1].start_clu = 0]}
        ELSE IF t = EXFAT_VOLUME
        THEN {[item EXCEPT ![1].num_ext = VOLUME_LABEL_MAX_LEN + 1]}
        ELSE {}

Corruptions(lay) ==
    {[lay EXCEPT !.fat[c] = v] : c \in FatSlots, v \in FatValues}
    \cup {[lay EXCEPT !.bitmap[c] = ~@] : c \in BitmapSlots}
    \cup UNION {UNION {{[lay EXCEPT !.items[d][k] = it] :
                            it \in ItemCorruptions(lay.items[d][k])} :
                        k \in 1 .. Len(lay.items[d])} : d \in HeapClusters}

RECURSIVE Flatten(_)
Flatten(items) == IF items = <<>> THEN <<>> ELSE Head(items) \o Flatten(Tail(items))

Volume(lay, main_ok, backup_ok) ==
    [boot |-> [main |-> [CleanBoot EXCEPT !.valid = main_ok],
               backup |-> [CleanBoot EXCEPT !.valid = backup_ok]],
     fat |-> lay.fat, bitmap |-> lay.bitmap,
     dirs |-> [c \in HeapClusters |-> Flatten(lay.items[c])]]

CleanVolumes == {Volume(lay, TRUE, TRUE) : lay \in Layouts}

Volumes ==
    CleanVolumes
    \cup {Volume(v, TRUE, TRUE) : v \in UNION {Corruptions(lay) : lay \in Layouts}}
    \cup {Volume(lay, FALSE, b) : lay \in Layouts, b \in BOOLEAN}

\* the faults of the write path; on a device opened read-only every write
\* fails already, so they are drawn in the write modes only
WriteFaults ==
    {"write_boot", "write_fat", "write_dentry", "write_bitmap", "fsync_flags",
     "fsync_final"}

Faults ==
    {NoFault}
    \cup {[kind |-> "fatread", at |-> c] : c \in {RootClus, F, F + 1}}
    \cup {[kind |-> "dirread", at |-> c] : c \in {RootClus, F}}
    \cup {[kind |-> k, at |-> 0] : k \in WriteFaults}

NullIter ==
    [parent |-> alloc_exfat_inode(0), clus |-> <<>>, buf |-> <<>>, pos |-> 1,
     dirty |-> {}, end_ret |-> -1]

\* The observations of a run: whether the volume was clean, whether the
\* volume-dirty flag was set by the run, the kinds of writes issued, those
\* that reached the device while the flag on disk was clear, the codes of
\* the repairs accepted, the chains check_clus_chain or the root check
\* accepted, and the last dentry set read_file accepted.
NoHist ==
    [clean |-> FALSE, marked |-> FALSE, issued |-> {}, early |-> {},
     accepted |-> {}, chains |-> {}, last |-> <<>>]

\* no library call under way
NoCall == <<>>
NoWrapper == <<>>

Init ==
    /\ pc = "boot"
    /\ options \in Modes
    /\ fault \in Faults
    /\ fault.kind \in WriteFaults => RepairWrite(options)
    /\ \E v \in Volumes :
        /\ boot = v.boot
        /\ fat = v.fat
        /\ bitmap_dev = v.bitmap
        /\ dirs = v.dirs
        /\ hist = [NoHist EXCEPT !.clean = v \in CleanVolumes]
    /\ bs = [CleanBoot EXCEPT !.valid = FALSE]
    /\ alloc_bitmap = Bits({})
    /\ disk_bitmap = Bits({})
    /\ root = alloc_exfat_inode(0)
    /\ dir_list = <<>>
    /\ de_iter = NullIter
    /\ dirty = FALSE
    /\ dirty_fat = FALSE
    /\ exfat_stat = [dir_count |-> 0, file_count |-> 0, error_count |-> 0,
                     fixed_count |-> 0]
    /\ ret = 0
    /\ exit_code = -1
    /\ call = NoCall
    /\ result = NoCall
    /\ webos = NoWrapper

(***************************************************************************)
(* Boot region.                                                            *)
(***************************************************************************)
NullBs == [CleanBoot EXCEPT !.valid = FALSE]

read_boot_region(which) ==
    IF boot[which].valid THEN [ret |-> 0, pbr |-> boot[which]]
    ELSE [ret |-> -EINVAL, pbr |-> NullBs]

\* sectors 0..11 rewritten from the backup, perc_in_use of sector 0 set to 0xff
restore_boot_region ==
    IF WriteOk("boot")
    THEN [ret |-> 0,
          boot |-> [boot EXCEPT !.main = [boot.backup EXCEPT !.perc_in_use = 255]]]
    ELSE [ret |-> -EIO, boot |-> boot]

\* The result of exfat_boot_region_check: ret, *bs, the boot regions, and
\* whether the restoration was accepted and whether it was written.
exfat_boot_region_check(ans) ==
    LET main == read_boot_region("main")
        backup == read_boot_region("backup")
        asked == main.ret = -EINVAL
                 /\ exfat_repair_ask("ER_BS_BOOT_REGION", ans)
        rs == restore_boot_region
        Res(rv, pbr, b, wr) ==
            [ret |-> rv, bs |-> pbr, boot |-> b, accepted |-> asked, restored |-> wr]
    IN  IF ~asked THEN Res(main.ret, main.pbr, boot, FALSE)
        ELSE IF backup.ret < 0 THEN Res(backup.ret, NullBs, boot, FALSE)
        ELSE IF rs.ret < 0 THEN Res(rs.ret, NullBs, rs.boot, TRUE)
        ELSE Res(rs.ret, backup.pbr, rs.boot, TRUE)

\* a faulty exfat_mark_volume_dirty that sets the flag whatever it is asked
exfat_mark_volume_dirty_set(d) ==
    LET nbs == [bs EXCEPT !.vol_dirty = TRUE]
    IN  IF ~WriteOk("boot") THEN [ret |-> -EIO, bs |-> nbs, boot |-> boot]
        ELSE [ret |-> 0, bs |-> nbs, boot |-> [boot EXCEPT !.main = nbs]]

\* The result of exfat_mark_volume_dirty: ret, exfat->bs and sector 0.
exfat_mark_volume_dirty(d) ==
    LET nbs == [bs EXCEPT !.vol_dirty = d]
    IN  IF ~WriteOk("boot") THEN [ret |-> -EIO, bs |-> nbs, boot |-> boot]
        ELSE [ret |-> IF d /\ fault.kind = "fsync_flags" THEN -EIO ELSE 0,
              bs |-> nbs, boot |-> [boot EXCEPT !.main = nbs]]

\* what a write adds to the observations: its kind when it was issued, and
\* whether it reached the device while the volume-dirty flag on disk was clear
Observe(h, kind, issued, reached) ==
    [h EXCEPT !.issued = IF issued THEN @ \cup {kind} ELSE @,
              !.early = IF issued /\ reached /\ ~boot.main.vol_dirty
                        THEN @ \cup {kind} ELSE @]

BootRegionCheck ==
    /\ pc = "boot"
    /\ \E ans \in Answers : \E r \in {exfat_boot_region_check(ans)} :
            /\ bs' = r.bs
            /\ boot' = r.boot
            /\ ret' = r.ret
            /\ dirty' = (dirty \/ r.accepted)
            /\ hist' = [Observe(hist, "boot_restore", r.restored, r.ret = 0) EXCEPT
                          !.accepted = IF r.accepted
                                       THEN @ \cup {"ER_BS_BOOT_REGION"} ELSE @]
            /\ pc' = IF r.ret # 0 THEN "exit" ELSE "mark_dirty"
    /\ UNCHANGED <<call, result, webos, options, fault, fat, bitmap_dev, dirs, alloc_bitmap,
                   disk_bitmap, root, dir_list, de_iter, dirty_fat, exfat_stat,
                   exit_code>>

MarkVolumeDirty ==
    /\ pc = "mark_dirty"
    /\ \E r \in {exfat_mark_volume_dirty(TRUE)} :
           IF RepairWrite(options)
           THEN /\ bs' = r.bs
                /\ boot' = r.boot
                /\ ret' = IF r.ret # 0 THEN -EIO ELSE ret
                /\ pc' = IF r.ret # 0 THEN "exit" ELSE "root"
                /\ hist' = [hist EXCEPT !.issued = @ \cup {"vol_flags"},
                                        !.marked = r.ret = 0]
           ELSE /\ pc' = "root"
                /\ UNCHANGED <<bs, boot, ret, hist>>
    /\ UNCHANGED <<call, result, webos, options, fault, fat, bitmap_dev, dirs, alloc_bitmap,
                   disk_bitmap, root, dir_list, de_iter, dirty, dirty_fat,
                   exfat_stat, exit_code>>

(***************************************************************************)
(* The iterator over a directory, and the lookup of a dentry by type.      *)
(***************************************************************************)
DirReadFails(clus) == fault = [kind |-> "dirread", at |-> clus]

\* read the clusters of dir's chain, n of them at most, into the window
RECURSIVE LoadChain(_, _, _, _)
LoadChain(dir, clus, n, it) ==
    LET r == get_inode_next_clus(dir, clus)
    IN  IF n = 0 THEN it
        ELSE IF ~heap_clus(clus) THEN [it EXCEPT !.end_ret = -EINVAL]
        ELSE IF DirReadFails(clus) THEN [it EXCEPT !.end_ret = -EIO]
        ELSE LoadChain(dir, IF r.ret = 0 THEN r.next ELSE EXFAT_FREE_CLUSTER, n - 1,
                       [it EXCEPT !.clus = Append(@, clus),
                                  !.buf = @ \o dirs[clus]])

exfat_de_iter_init(dir) ==
    IF dir.size = 0 THEN [ret |-> -1, iter |-> NullIter]
    ELSE Bind(LoadChain(dir, dir.first_clus, DIV_ROUND_UP(dir.size, ClusSize),
                        [NullIter EXCEPT !.parent = dir]),
              LAMBDA it : IF it.clus = <<>> THEN [ret |-> it.end_ret, iter |-> NullIter]
                          ELSE [ret |-> 0, iter |-> it])

\* the dentries of the window written back to their clusters
RECURSIVE WriteBack(_, _, _)
WriteBack(d, clus, buf) ==
    IF clus = <<>> THEN d
    ELSE LET n == Len(d[Head(clus)])
         IN  WriteBack([d EXCEPT ![Head(clus)] = SubSeq(buf, 1, n)], Tail(clus),
                       SubSeq(buf, n + 1, Len(buf)))

\* exfat_de_iter_flush: the directory data after it, and whether it wrote
exfat_de_iter_flush(iter) ==
    [issued |-> iter.dirty # {},
     dirs |-> IF iter.dirty # {} /\ WriteOk("dentry")
              THEN WriteBack(dirs, iter.clus, iter.buf) ELSE dirs]

\* exfat_de_iter_device_offset: the device offset of the dentry at the window
\* position, counted from the start of the cluster heap; a cluster takes the
\* room of ClusSize dentries
RECURSIVE DevOffsetFrom(_, _)
DevOffsetFrom(clus, k) ==
    IF k <= Len(dirs[Head(clus)]) \/ Len(clus) = 1
    THEN (Head(clus) - EXFAT_FIRST_CLUSTER) * ClusSize * DENTRY_SIZE
         + (k - 1) * DENTRY_SIZE
    ELSE DevOffsetFrom(Tail(clus), k - Len(dirs[Head(clus)]))

exfat_de_iter_device_offset(iter) == DevOffsetFrom(iter.clus, iter.pos)

\* the loop of filter_lookup_file over the Name dentries from index i on
RECURSIVE NameLoop(_, _, _, _)
NameLoop(iter, i, name, num_ext) ==
    LET g == exfat_de_iter_get(iter, i)
        len == Min(Len(name), ENTRY_NAME_MAX)
    IN  IF ~(i <= num_ext /\ Len(name) > 0) THEN [ret |-> 0, dentry_count |-> i]
        ELSE IF g.ret # 0 \/ g.dentry.type # EXFAT_NAME
        THEN [ret |-> 1, dentry_count |-> 1]
        ELSE IF SubSeq(g.dentry.unicode_0_14, 1, len) # SubSeq(name, 1, len)
        THEN [ret |-> 1, dentry_count |-> 1]
        ELSE NameLoop(iter, i + 1, SubSeq(name, len + 1, Len(name)), num_ext)

\* filter_lookup_file: 0 and the length of the set when the set at the
\* window position carries the name, 1 otherwise
filter_lookup_file(iter, param) ==
    LET file_de == exfat_de_iter_get(iter, 0)
        stream_de == exfat_de_iter_get(iter, 1)
    IN  IF file_de.ret # 0 \/ file_de.dentry.type # EXFAT_FILE
        THEN [ret |-> 1, dentry_count |-> 1]
        ELSE IF stream_de.ret # 0 \/ stream_de.dentry.type # EXFAT_STREAM
        THEN [ret |-> 1, dentry_count |-> 1]
        ELSE IF file_de.dentry.num_ext
                < 1 + (Len(param) + ENTRY_NAME_MAX - 1) \div ENTRY_NAME_MAX
        THEN [ret |-> 1, dentry_count |-> 1]
        ELSE NameLoop(iter, 2, param, file_de.dentry.num_ext)

\* the free offset after a free dentry at the window position: with the run
\* restarted at every free dentry
note_free_slot_every(iter, free_offset, last_is_free) ==
    exfat_de_iter_device_offset(iter)

\* the free offset after a free dentry at the window position: taken where a
\* run of free dentries starts, kept inside the run
note_free_slot(iter, free_offset, last_is_free) ==
    IF last_is_free THEN free_offset ELSE exfat_de_iter_device_offset(iter)

\* a filter on the type alone (in.filter is NULL)
TypeFilter(type) == [type |-> type, has_filter |-> FALSE, param |-> <<>>]

\* The loop of exfat_lookup_dentry_set and what follows it: ret, the first
\* dentry of the set found, out.dentry_count and out.dentry_d_offset.
RECURSIVE LookupFrom(_, _, _, _)
LookupFrom(iter, filter, free_offset, last_is_free) ==
    LET g == exfat_de_iter_get(iter, 0)
        next == [iter EXCEPT !.pos = @ + 1]
        m == IF filter.has_filter THEN filter_lookup_file(iter, filter.param)
             ELSE [ret |-> 0, dentry_count |-> 1]
        Out(rv, de, n) ==
            [ret |-> rv, dentry |-> de, dentry_count |-> n,
             dentry_d_offset |->
                IF rv = 0 THEN exfat_de_iter_device_offset(iter)
                ELSE IF rv = -1 /\ last_is_free THEN free_offset
                ELSE -1]
    IN  IF g.ret # 0 THEN Out(g.ret, LastDe, 0)
        ELSE IF g.dentry.type = filter.type
        THEN IF m.ret = 0 THEN Out(0, g.dentry, m.dentry_count)
             ELSE IF m.ret < 0 THEN Out(m.ret, LastDe, 0)
             ELSE LookupFrom(next, filter, free_offset, FALSE)
        ELSE IF g.dentry.type = EXFAT_LAST \/ IS_EXFAT_DELETED(g.dentry.type)
        THEN LookupFrom(next, filter,
                        note_free_slot(iter, free_offset, last_is_free), TRUE)
        ELSE LookupFrom(next, filter, free_offset, FALSE)

exfat_lookup_dentry_set(parent, filter) ==
    Bind(exfat_de_iter_init(parent),
         LAMBDA i : IF i.ret # 0
                    THEN [ret |-> i.ret, dentry |-> LastDe, dentry_count |-> 0,
                          dentry_d_offset |-> -1]
                    ELSE LookupFrom(i.iter, filter, 0, FALSE))

(***************************************************************************)
(* The root directory.                                                     *)
(***************************************************************************)
\* a faulty iteration without the loop detection
root_iter_unchecked(node, clus, count, alloc) ==
    LET r == get_inode_next_clus(node, clus)
    IN  IF ~heap_clus(clus)
        THEN [done |-> TRUE, ok |-> FALSE, clus |-> clus, count |-> count,
              alloc |-> alloc]
        ELSE [done |-> r.ret # 0 \/ r.next = EXFAT_EOF_CLUSTER, ok |-> r.ret = 0,
              clus |-> r.next, count |-> IF r.ret = 0 THEN count + 1 ELSE count,
              alloc |-> exfat_bitmap_set(alloc, clus)]

\* one iteration of the do-while loop of root_get_clus_count: whether the
\* loop is left, the return value if so, clus, *clus_count and alloc_bitmap
root_iter(node, clus, count, alloc) ==
    LET r == get_inode_next_clus(node, clus)
    IN  IF ~heap_clus(clus) \/ exfat_bitmap_get(alloc, clus)
        THEN [done |-> TRUE, ok |-> FALSE, clus |-> clus, count |-> count,
              alloc |-> alloc]
        ELSE IF r.ret # 0
        THEN [done |-> TRUE, ok |-> FALSE, clus |-> r.next, count |-> count,
              alloc |-> exfat_bitmap_set(alloc, clus)]
        ELSE [done |-> r.next = EXFAT_EOF_CLUSTER, ok |-> TRUE, clus |-> r.next,
              count |-> count + 1, alloc |-> exfat_bitmap_set(alloc, clus)]

RECURSIVE RootWalk(_, _, _, _)
RootWalk(node, clus, count, alloc) ==
    Bind(root_iter(node, clus, count, alloc),
         LAMBDA s : IF s.done
                    THEN [ok |-> s.ok, count |-> s.count, alloc |-> s.alloc]
                    ELSE RootWalk(node, s.clus, s.count, s.alloc))

root_get_clus_count(node, alloc) == RootWalk(node, node.first_clus, 0, alloc)

\* The result of read_bitmap: ret, alloc_bitmap and disk_bitmap.
read_bitmap(rootnode, alloc) ==
    LET disk_bitmap_size == DIV_ROUND_UP(NClus, 8)
        Res(rv, a, d) == [ret |-> rv, alloc |-> a, disk |-> d]
        Found(f) ==
            IF f.ret # 0 THEN Res(f.ret, alloc, disk_bitmap)
            ELSE IF f.dentry.size < DIV_ROUND_UP(NClus, 8)
            THEN Res(-EINVAL, alloc, disk_bitmap)
            ELSE IF ~heap_clus(f.dentry.start_clu)
            THEN Res(-EINVAL, alloc, disk_bitmap)
            ELSE Res(0,
                     exfat_bitmap_set_range(alloc, f.dentry.start_clu,
                                            DIV_ROUND_UP(disk_bitmap_size, ClusSize)),
                     bitmap_dev)
    IN  Bind(exfat_lookup_dentry_set(rootnode, TypeFilter(EXFAT_BITMAP)), Found)

\* The result of read_upcase_table: ret and alloc_bitmap.
read_upcase_table(rootnode, alloc) ==
    LET Found(f) ==
            IF f.ret # 0 THEN [ret |-> f.ret, alloc |-> alloc]
            ELSE IF ~heap_clus(f.dentry.start_clu)
            THEN [ret |-> -EINVAL, alloc |-> alloc]
            ELSE IF f.dentry.size = 0 \/ f.dentry.size % 2 # 0
            THEN [ret |-> -EINVAL, alloc |-> alloc]
            ELSE [ret |-> 0,
                  alloc |-> exfat_bitmap_set_range(alloc, f.dentry.start_clu,
                                                   DIV_ROUND_UP(f.dentry.size,
                                                                ClusSize))]
    IN  Bind(exfat_lookup_dentry_set(rootnode, TypeFilter(EXFAT_UPCASE)), Found)

\* exfat_root_dir_check, and the list_add of the root that opens
\* exfat_filesystem_check
RootDirCheck ==
    /\ pc = "root"
    /\ \E node \in {[alloc_exfat_inode(ATTR_SUBDIR) EXCEPT !.first_clus = RootClus]} :
       \E w \in {root_get_clus_count(node, alloc_bitmap)} :
       \E rnode \in {[node EXCEPT !.size = w.count * ClusSize]} :
       \E b \in {read_bitmap(rnode, w.alloc)} :
       \E u \in {read_upcase_table(rnode, b.alloc)} :
           IF ~w.ok
           THEN /\ alloc_bitmap' = w.alloc
                /\ ret' = -EINVAL
                /\ pc' = "exit"
                /\ UNCHANGED <<root, disk_bitmap, dir_list, exfat_stat, hist>>
           ELSE /\ root' = rnode
                /\ exfat_stat' = [exfat_stat EXCEPT !.dir_count = @ + 1]
                /\ alloc_bitmap' = IF b.ret # 0 THEN b.alloc ELSE u.alloc
                /\ disk_bitmap' = b.disk
                /\ ret' = IF b.ret # 0 \/ u.ret # 0 THEN -EINVAL ELSE 0
                /\ pc' = IF b.ret # 0 \/ u.ret # 0 THEN "exit" ELSE "dirs"
                /\ dir_list' = IF b.ret # 0 \/ u.ret # 0 THEN <<>> ELSE <<rnode>>
                /\ hist' = IF b.ret # 0 \/ u.ret # 0 THEN hist
                           ELSE [hist EXCEPT !.chains =
                                   @ \cup {[dir |-> 0, pos |-> 0, node |-> rnode,
                                            codes |-> {}]}]
    /\ UNCHANGED <<call, result, webos, options, fault, boot, fat, bitmap_dev, dirs, bs, de_iter,
                   dirty, dirty_fat, exit_code>>

(***************************************************************************)
(* exfat_filesystem_check and read_children.                               *)
(***************************************************************************)
\* the head of the loop of exfat_filesystem_check, up to the iterator's init
\* in read_children
OpenDir ==
    /\ pc = "dirs"
    /\ dir_list # <<>>
    /\ \E dir \in {Head(dir_list)} : \E i \in {exfat_de_iter_init(dir)} :
           IF ~HasFlag(dir.attr, ATTR_SUBDIR)
           THEN /\ ret' = -EINVAL
                /\ dir_list' = <<>>
                /\ UNCHANGED <<pc, de_iter>>
           ELSE IF i.ret # 0
           THEN /\ ret' = IF i.ret = -1 THEN ret ELSE i.ret
                /\ dir_list' = Tail(dir_list)
                /\ UNCHANGED <<pc, de_iter>>
           ELSE /\ de_iter' = i.iter
                /\ pc' = "scan"
                /\ UNCHANGED <<ret, dir_list>>
    /\ UNCHANGED <<call, result, webos, options, fault, boot, fat, bitmap_dev, dirs, bs, alloc_bitmap,
                   disk_bitmap, root, dirty, dirty_fat, exfat_stat, exit_code,
                   hist>>

\* a faulty return that leaves the children of an aborted directory queued
LeaveDirKeepChildren(rv, is_err) ==
    \E fl \in {exfat_de_iter_flush(de_iter)} :
        /\ dirs' = fl.dirs
        /\ hist' = Observe(hist, "dentry", fl.issued, WriteOk("dentry"))
        /\ de_iter' = [de_iter EXCEPT !.dirty = {}]
        /\ ret' = IF rv # 0 THEN rv ELSE ret
        /\ dir_list' = Tail(dir_list)
        /\ pc' = "dirs"

\* read_children returns rv to exfat_filesystem_check: the flush, the
\* children freed on the error path, the list_del of the directory
LeaveDir(rv, is_err) ==
    \E fl \in {exfat_de_iter_flush(de_iter)} :
    LET me == de_iter.parent.first_clus
        rest == Tail(dir_list)
    IN  /\ dirs' = fl.dirs
        /\ hist' = Observe(hist, "dentry", fl.issued, WriteOk("dentry"))
        /\ de_iter' = [de_iter EXCEPT !.dirty = {}]
        /\ ret' = IF rv # 0 THEN rv ELSE ret
        /\ dir_list' = IF is_err
                       THEN SelectSeq(rest, LAMBDA n : n.parent # me)
                       ELSE rest
        /\ pc' = "dirs"

\* one iteration of the loop of read_children on a File dentry
ScanFile ==
    /\ pc = "scan"
    /\ exfat_de_iter_get(de_iter, 0).ret = 0
    /\ exfat_de_iter_get(de_iter, 0).dentry.type = EXFAT_FILE
    /\ \E ans \in Answers : \E rf \in {read_file(de_iter, alloc_bitmap, ans)} :
        LET node == [rf.node EXCEPT !.parent = de_iter.parent.first_clus]
            wrote == rf.fat_w # <<>> /\ WriteOk("fat")
        IN  /\ rf.dentry_count = 0 => exfat_stat.error_count < MaxErr
            /\ alloc_bitmap' = rf.alloc
            /\ fat' = IF wrote THEN [fat EXCEPT ![rf.fat_w[1].clus] = rf.fat_w[1].val]
                      ELSE fat
            /\ de_iter' = [de_iter EXCEPT !.buf = rf.buf,
                                          !.dirty = @ \cup rf.got_dirty,
                                          !.pos = @ + rf.dentry_count]
            /\ dirty' = (dirty \/ rf.accepted # {})
            /\ dirty_fat' = (dirty_fat \/ rf.accepted \cap TruncateCodes # {})
            /\ exfat_stat' =
                [exfat_stat EXCEPT
                    !.error_count = IF rf.ret # 0 THEN @ + 1 ELSE @,
                    !.fixed_count = IF rf.ret > 0 THEN @ + 1 ELSE @,
                    !.dir_count = IF rf.ret >= 0 /\ HasFlag(node.attr, ATTR_SUBDIR)
                                  THEN @ + 1 ELSE @,
                    !.file_count = IF rf.ret >= 0 /\ ~HasFlag(node.attr, ATTR_SUBDIR)
                                   THEN @ + 1 ELSE @]
            /\ dir_list' = IF rf.ret >= 0 /\ HasFlag(node.attr, ATTR_SUBDIR)
                              /\ node.size # 0
                           THEN Append(dir_list, node) ELSE dir_list
            /\ hist' = [Observe(hist, "fat", rf.fat_w # <<>>, WriteOk("fat")) EXCEPT
                          !.accepted = @ \cup rf.accepted,
                          !.chains = IF rf.chain_ret >= 0
                                     THEN @ \cup {[dir |-> de_iter.parent.first_clus,
                                                 pos |-> de_iter.pos,
                                                 node |-> node,
                                                 codes |-> rf.accepted]}
                                     ELSE @,
                          !.last = IF rf.ret >= 0
                                   THEN <<[ret |-> rf.ret, node |-> node,
                                           codes |-> rf.accepted,
                                           set |-> SubSeq(rf.buf, de_iter.pos,
                                                          de_iter.pos + rf.dentry_count - 1)]>>
                                   ELSE @]
    /\ UNCHANGED <<call, result, webos, pc, options, fault, boot, bitmap_dev, dirs, bs, disk_bitmap,
                   root, ret, exit_code>>

\* one iteration on a dentry that is neither a File nor the Last one
ScanOther ==
    /\ pc = "scan"
    /\ exfat_de_iter_get(de_iter, 0).ret = 0
    /\ \E dentry \in {exfat_de_iter_get(de_iter, 0).dentry} :
           /\ dentry.type \notin {EXFAT_FILE, EXFAT_LAST}
           /\ IF dentry.type = EXFAT_VOLUME /\ dentry.num_ext > VOLUME_LABEL_MAX_LEN
              THEN LeaveDir(-EINVAL, TRUE)
              ELSE /\ de_iter' = [de_iter EXCEPT !.pos = @ + 1]
                   /\ UNCHANGED <<dirs, hist, ret, dir_list, pc>>
    /\ UNCHANGED <<call, result, webos, options, fault, boot, fat, bitmap_dev, bs, alloc_bitmap,
                   disk_bitmap, root, dirty, dirty_fat, exfat_stat, exit_code>>

\* the loop of read_children ends: EOF, an iterator error, or the Last dentry
ScanEnd ==
    /\ pc = "scan"
    /\ \E g \in {exfat_de_iter_get(de_iter, 0)} :
           /\ g.ret # 0 \/ g.dentry.type = EXFAT_LAST
           /\ IF g.ret # 0 /\ g.ret # -1 THEN LeaveDir(g.ret, TRUE)
              ELSE LeaveDir(0, FALSE)
    /\ UNCHANGED <<call, result, webos, options, fault, boot, fat, bitmap_dev, bs, alloc_bitmap,
                   disk_bitmap, root, dirty, dirty_fat, exfat_stat, exit_code>>

(***************************************************************************)
(* Reclamation: the FAT and the on-disk bitmap are brought in line with    *)
(* alloc_bitmap, a cluster-sized window at a time, written by sector.      *)
(***************************************************************************)
SizeofClus == ClusBits \div 8      \* sizeof(clus_t)

\* a faulty loop that also frees FAT entries 0 and 1 of the first window
RECURSIVE FatWindowsFromZero(_, _, _, _)
FatWindowsFromZero(clus, f, alloc, issued) ==
    LET last_clus == NClus + 2
        clus_count == Min(ClusSize \div SizeofClus, last_clus - clus)
        window == clus .. (clus + clus_count - 1)
        freed == {i \in window : /\ ~exfat_bitmap_get(alloc, i)
                                 /\ f[i] # EXFAT_FREE_CLUSTER}
    IN  IF clus >= last_clus THEN [ret |-> 0, fat |-> f, issued |-> issued]
        ELSE FatWindowsFromZero(clus + clus_count,
                                [i \in DOMAIN f |->
                                    IF i \in freed THEN EXFAT_FREE_CLUSTER ELSE f[i]],
                                alloc, issued \/ freed # {})

\* the loop of write_dirty_fat from FAT entry clus on
RECURSIVE FatWindows(_, _, _, _)
FatWindows(clus, f, alloc, issued) ==
    LET last_clus == NClus + 2
        clus_count == Min(ClusSize \div SizeofClus, last_clus - clus)
        window == clus .. (clus + clus_count - 1)
        freed == {i \in window : /\ i >= EXFAT_FIRST_CLUSTER
                                 /\ ~exfat_bitmap_get(alloc, i)
                                 /\ f[i] # EXFAT_FREE_CLUSTER}
    IN  IF clus >= last_clus THEN [ret |-> 0, fat |-> f, issued |-> issued]
        ELSE IF \E i \in window : FatReadFails(i)
        THEN [ret |-> -EIO, fat |-> f, issued |-> issued]
        ELSE IF freed # {} /\ ~WriteOk("fat")
        THEN [ret |-> -EIO, fat |-> f, issued |-> TRUE]
        ELSE FatWindows(clus + clus_count,
                        [i \in DOMAIN f |-> IF i \in freed THEN EXFAT_FREE_CLUSTER
                                            ELSE f[i]],
                        alloc, issued \/ freed # {})

write_dirty_fat(f, alloc) == FatWindows(0, f, alloc, FALSE)

\* a faulty comparison that looks at the lowest bit of the byte only
ByteDiffersLowBit(alloc, dev, b) ==
    alloc[EXFAT_FIRST_CLUSTER + 8 * b] # dev[EXFAT_FIRST_CLUSTER + 8 * b]

\* byte b of a bitmap differs between the two
ByteDiffers(alloc, dev, b) ==
    \E k \in 0 .. 7 : alloc[EXFAT_FIRST_CLUSTER + 8 * b + k]
                        # dev[EXFAT_FIRST_CLUSTER + 8 * b + k]

\* the loops of write_dirty_bitmap: the window at byte offset, the sector at
\* byte i of the window
RECURSIVE BitmapPass(_, _, _, _, _, _)
BitmapPass(offset, i, last_offset, alloc, dev, issued) ==
    LET len == Min(ClusSize, last_offset - offset)
        size == Min(SectSize, len - i)
        bytes == (offset + i) .. (offset + i + size - 1)
        written == [c \in DOMAIN dev |->
                      IF (c - EXFAT_FIRST_CLUSTER) \div 8 \in bytes THEN alloc[c]
                      ELSE dev[c]]
    IN  IF offset >= last_offset THEN [ret |-> 0, dev |-> dev, issued |-> issued]
        ELSE IF i >= len
        THEN BitmapPass(offset + len, 0, last_offset, alloc, dev, issued)
        ELSE IF \A b \in bytes : ~ByteDiffers(alloc, dev, b)
        THEN BitmapPass(offset, i + SectSize, last_offset, alloc, dev, issued)
        ELSE IF ~WriteOk("bitmap") THEN [ret |-> -EIO, dev |-> dev, issued |-> TRUE]
        ELSE BitmapPass(offset, i + SectSize, last_offset, alloc, written, TRUE)

write_dirty_bitmap(alloc, dev, disk_bitmap_size) ==
    BitmapPass(0, 0, disk_bitmap_size, alloc, dev, FALSE)

\* the tail of exfat_filesystem_check (reclaim_free_clusters when dirty_fat)
\* and its return to main
Reclaim ==
    /\ pc = "dirs"
    /\ dir_list = <<>>
    /\ \E wf \in {write_dirty_fat(fat, alloc_bitmap)} :
       \E wb \in {write_dirty_bitmap(alloc_bitmap, bitmap_dev, DIV_ROUND_UP(NClus, 8))} :
       LET rv == IF ~dirty_fat THEN ret
                 ELSE IF wf.ret # 0 \/ wb.ret # 0 THEN -EIO
                 ELSE ret
       IN  /\ fat' = IF dirty_fat THEN wf.fat ELSE fat
           /\ bitmap_dev' = IF dirty_fat /\ wf.ret = 0 THEN wb.dev ELSE bitmap_dev
           /\ hist' = IF ~dirty_fat THEN hist
                      ELSE IF wf.ret # 0
                      THEN Observe(hist, "fat_reclaim", wf.issued, WriteOk("fat"))
                      ELSE Observe(Observe(hist, "fat_reclaim", wf.issued, TRUE),
                                   "bitmap", wb.issued, WriteOk("bitmap"))
           /\ ret' = rv
           /\ pc' = IF rv # 0 THEN "exit" ELSE "sync"
    /\ root' = alloc_exfat_inode(0)
    /\ UNCHANGED <<call, result, webos, options, fault, boot, dirs, bs, alloc_bitmap, disk_bitmap,
                   dir_list, de_iter, dirty, dirty_fat, exfat_stat, exit_code>>

\* main after a traversal that returned 0: fsync, then the volume marked clean
SyncClean ==
    /\ pc = "sync"
    /\ \E r \in {exfat_mark_volume_dirty(FALSE)} :
           IF RepairWrite(options) /\ fault.kind = "fsync_final"
           THEN /\ ret' = -EIO
                /\ UNCHANGED <<bs, boot, hist>>
           ELSE IF RepairWrite(options)
           THEN /\ bs' = r.bs
                /\ boot' = r.boot
                /\ hist' = [hist EXCEPT !.issued = @ \cup {"vol_flags"}]
                /\ UNCHANGED ret
           ELSE UNCHANGED <<bs, boot, hist, ret>>
    /\ pc' = "exit"
    /\ UNCHANGED <<call, result, webos, options, fault, fat, bitmap_dev, dirs, alloc_bitmap,
                   disk_bitmap, root, dir_list, de_iter, dirty, dirty_fat,
                   exfat_stat, exit_code>>

\* the exit code of main
Exit ==
    /\ pc = "exit"
    /\ exit_code' = IF ret = -EINVAL THEN FSCK_EXIT_ERRORS_LEFT
                    ELSE IF ret # 0 THEN FSCK_EXIT_OPERATION_ERROR
                    ELSE IF dirty THEN FSCK_EXIT_CORRECTED
                    ELSE FSCK_EXIT_NO_ERRORS
    /\ pc' = "done"
    /\ UNCHANGED <<call, result, webos, options, fault, boot, fat, bitmap_dev, dirs, bs, alloc_bitmap,
                   disk_bitmap, root, dir_list, de_iter, dirty, dirty_fat,
                   exfat_stat, ret, hist>>

Next ==
    \/ BootRegionCheck
    \/ MarkVolumeDirty
    \/ RootDirCheck
    \/ OpenDir
    \/ ScanFile
    \/ ScanOther
    \/ ScanEnd
    \/ Reclaim
    \/ SyncClean
    \/ Exit

Spec == Init /\ [][Next]_vars

(***************************************************************************)
(* write_dirty_bitmap on its own: a bitmap of several clusters, the two    *)
(* copies differing in any set of bytes.                                   *)
(***************************************************************************)
BmClus == 36        \* clu_count of the volume of the bitmap pass

BmBytes == DIV_ROUND_UP(BmClus, 8)
BmSlots == EXFAT_FIRST_CLUSTER .. (EXFAT_FIRST_CLUSTER + 8 * BmBytes - 1)
BmHeap == EXFAT_FIRST_CLUSTER .. (EXFAT_FIRST_CLUSTER + BmClus - 1)

\* in-memory bitmaps: the clusters below a mark allocated
BmAllocs == {[c \in BmSlots |-> c < k] : k \in {2, 7, 19, 20, 8 * BmBytes + 2}}

\* the on-disk copy: the in-memory one with the second bit of any bytes, or
\* the first bit of the first byte, flipped
BmFlips ==
    SUBSET ({EXFAT_FIRST_CLUSTER + 8 * b + 1 : b \in 0 .. (BmBytes - 1)}
            \cup {EXFAT_FIRST_CLUSTER})

InitBitmap ==
    /\ pc = "bitmap"
    /\ options \in Modes
    /\ fault \in {NoFault, [kind |-> "write_bitmap", at |-> 0]}
    /\ alloc_bitmap \in BmAllocs
    /\ \E flips \in BmFlips :
        bitmap_dev = [c \in BmSlots |-> IF c \in flips THEN ~alloc_bitmap[c]
                                        ELSE alloc_bitmap[c]]
    /\ disk_bitmap = bitmap_dev
    /\ boot = [main |-> CleanBoot, backup |-> CleanBoot]
    /\ bs = CleanBoot
    /\ fat = SysFat
    /\ dirs = NoItems
    /\ root = alloc_exfat_inode(0)
    /\ dir_list = <<>>
    /\ de_iter = NullIter
    /\ dirty = FALSE
    /\ dirty_fat = TRUE
    /\ exfat_stat = [dir_count |-> 0, file_count |-> 0, error_count |-> 0,
                     fixed_count |-> 0]
    /\ ret = 0
    /\ exit_code = -1
    /\ hist = NoHist
    /\ call = NoCall
    /\ result = NoCall
    /\ webos = NoWrapper

WriteDirtyBitmap ==
    /\ pc = "bitmap"
    /\ \E wb \in {write_dirty_bitmap(alloc_bitmap, bitmap_dev, BmBytes)} :
        /\ bitmap_dev' = wb.dev
        /\ ret' = wb.ret
        /\ hist' = Observe(hist, "bitmap", wb.issued, WriteOk("bitmap"))
    /\ pc' = "bitmap_done"
    /\ UNCHANGED <<call, result, webos, options, fault, boot, fat, dirs, bs, alloc_bitmap, disk_bitmap,
                   root, dir_list, de_iter, dirty, dirty_fat, exfat_stat,
                   exit_code>>

NextBitmap == WriteDirtyBitmap

SpecBitmap == InitBitmap /\ [][NextBitmap]_vars

(***************************************************************************)
(* Library calls on their own.  A library specification holds the          *)
(* arguments of one call in call and what it returned in result; the       *)
(* state of main() stays as it is before exfat_boot_region_check.          *)
(***************************************************************************)
LibRest ==
    /\ webos = NoWrapper
    /\ fault = NoFault
    /\ boot = [main |-> CleanBoot, backup |-> CleanBoot]
    /\ bs = CleanBoot
    /\ bitmap_dev = Bits(SysClus)
    /\ alloc_bitmap = Bits({})
    /\ disk_bitmap = Bits({})
    /\ root = alloc_exfat_inode(0)
    /\ dir_list = <<>>
    /\ de_iter = NullIter
    /\ dirty = FALSE
    /\ dirty_fat = FALSE
    /\ exfat_stat = [dir_count |-> 0, file_count |-> 0, error_count |-> 0,
                     fixed_count |-> 0]
    /\ ret = 0
    /\ exit_code = -1
    /\ hist = NoHist

LibInit ==
    /\ LibRest
    /\ options = "no"
    /\ fat = SysFat
    /\ dirs = NoItems

LibUnchanged ==
    UNCHANGED <<webos, options, fault, boot, fat, bitmap_dev, dirs, bs, alloc_bitmap,
                disk_bitmap, root, dir_list, de_iter, dirty, dirty_fat,
                exfat_stat, ret, exit_code, hist>>

(***************************************************************************)
(* The dentry-set builder and mutator (create.c).                          *)
(***************************************************************************)
MaxNameLen == 32    \* longest name built, in UTF-16 code units

\* units of utf16_name that a set of a name of MaxNameLen units is read from
BufUnits == 2 * ENTRY_NAME_MAX * DIV_ROUND_UP(MaxNameLen, ENTRY_NAME_MAX)

\* exfat->upcase_table: the table of a volume that folds a-z to A-Z
upcase_table(ch) == IF ch >= 97 /\ ch <= 122 THEN ch - 32 ELSE ch

\* the loop of the hash over the units as they are, with no upcase table
RECURSIVE NameHashRaw(_, _, _, _)
NameHashRaw(name, len, i, chksum) ==
    IF i > len THEN chksum
    ELSE CHOOSE r \in
            {NameHashRaw(name, len, i + 1, c) :
                c \in {Rot(Rot(chksum, name[i] % 256), name[i] \div 256)}} : TRUE

\* the loop of exfat_calc_name_hash from unit i (1-based) on
RECURSIVE NameHash(_, _, _, _)
NameHash(name, len, i, chksum) ==
    IF i > len THEN chksum
    ELSE CHOOSE r \in
            {NameHash(name, len, i + 1, c) :
                c \in {Rot(Rot(chksum, upcase_table(name[i]) % 256),
                           upcase_table(name[i]) \div 256)}} : TRUE

exfat_calc_name_hash(name, len) == NameHash(name, len, 1, 0)

\* exfat_utf16_enc: the units of the name stored at the start of the buffer,
\* the rest of the buffer left as it was; the length in bytes returned
exfat_utf16_enc(name, buf) ==
    [ret |-> 2 * Len(name),
     buf |-> [i \in DOMAIN buf |-> IF i <= Len(name) THEN name[i] ELSE buf[i]]]

\* the loop of calc_dentry_set_checksum from dentry i (1-based) on
RECURSIVE DsetSum(_, _, _, _)
DsetSum(dset, dcount, i, checksum) ==
    IF i > dcount THEN checksum
    ELSE CHOOSE r \in
            {DsetSum(dset, dcount, i + 1, c) :
                c \in {exfat_calc_dentry_checksum(dset[i], checksum, i = 1)}} :
            TRUE

calc_dentry_set_checksum(dset, dcount) ==
    IF dcount < MIN_FILE_DENTRIES THEN 0 ELSE DsetSum(dset, dcount, 1, 0)

\* the copy into the Name dentry at index i (0-based, from 2 on):
\* ENTRY_NAME_MAX units from utf16_name + (i - 2) * ENTRY_NAME_MAX * 2, a
\* pointer to 16-bit units
name_units(utf16_name, i) ==
    SubSeq(utf16_name, (i - 2) * ENTRY_NAME_MAX * 2 + 1,
           (i - 2) * ENTRY_NAME_MAX * 2 + ENTRY_NAME_MAX)

\* The result of exfat_build_file_dentry_set: ret, *dentry_set, *dentry_count.
exfat_build_file_dentry_set(name, attr, now) ==
    LET enc == exfat_utf16_enc(name, Zeros(BufUnits))
        name_len == enc.ret \div 2
        dcount == 2 + DIV_ROUND_UP(name_len, ENTRY_NAME_MAX)
        Done(dset) ==
            [ret |-> 0,
             dentry_set |-> [dset EXCEPT ![1].checksum =
                                calc_dentry_set_checksum(dset, dcount)],
             dentry_count |-> dcount]
    IN  Bind([i \in 1 .. dcount |->
                IF i = 1
                THEN [type |-> EXFAT_FILE, num_ext |-> dcount - 1,
                      checksum |-> 0, attr |-> attr, now |-> now]
                ELSE IF i = 2
                THEN [type |-> EXFAT_STREAM, flags |-> 1,
                      name_len |-> name_len % 256,
                      name_hash |-> exfat_calc_name_hash(enc.buf, name_len),
                      valid_size |-> 0, start_clu |-> 0, size |-> 0]
                ELSE [type |-> EXFAT_NAME,
                      unicode_0_14 |-> name_units(enc.buf, i - 1)]],
             Done)

\* a name argument that is NULL
NoName == <<-1>>

\* The result of exfat_update_file_dentry_set: ret and dset as left.  stack
\* is what utf16_name, which is not cleared, holds on entry.
exfat_update_file_dentry_set(dset, dcount, name, start_clu, ccount, stack) ==
    LET enc == exfat_utf16_enc(name, stack)
        name_len == enc.ret \div 2
        size == (ccount * ClusSize) % (2 ^ ClusBits)
        Sealed(d) ==
            [ret |-> 0,
             dset |-> [d EXCEPT ![1].checksum = calc_dentry_set_checksum(d, dcount)]]
    IN  IF dset[1].type # EXFAT_FILE \/ dcount < 3
        THEN [ret |-> -EINVAL, dset |-> dset]
        ELSE IF name # NoName
                /\ dcount # 2 + DIV_ROUND_UP(name_len, ENTRY_NAME_MAX)
        THEN [ret |-> -EINVAL, dset |-> dset]
        ELSE Bind([i \in 1 .. dcount |->
                     IF i = 1 THEN dset[1]
                     ELSE IF i = 2
                     THEN [dset[2] EXCEPT
                             !.name_len = IF name = NoName THEN @
                                          ELSE name_len % 256,
                             !.name_hash =
                                 IF name = NoName THEN @
                                 ELSE exfat_calc_name_hash(enc.buf, name_len),
                             !.valid_size = size,
                             !.size = size,
                             !.start_clu = IF start_clu # 0 THEN start_clu ELSE @]
                     ELSE IF name = NoName THEN dset[i]
                     ELSE [type |-> EXFAT_NAME,
                           unicode_0_14 |-> name_units(enc.buf, i - 1)]],
                  Sealed)

\* the names built: L units, each unit telling its position
Names ==
    {[i \in 1 .. L |-> base + i] : L \in 0 .. MaxNameLen, base \in {64, 96}}

\* the names a set of name is updated with: none, the same, another of the
\* same length, a longer one
NewNames(name) ==
    {NoName, name, [i \in DOMAIN name |-> name[i] + 1], name \o <<90>>}

\* what the stack holds where utf16_name is placed
StackUnits == {0, 52428}

InitDset ==
    /\ pc = "build"
    /\ \E name \in Names, attr \in {32, ATTR_SUBDIR}, g \in StackUnits,
          start_clu \in {0, FirstFileClus},
          ccount \in {0, 2, (2 ^ ClusBits) \div ClusSize} :
          \E new_name \in NewNames(name) :
            call = [name |-> name, attr |-> attr,
                    now |-> [date |-> 23394, time |-> 35000, time_ms |-> 100,
                             tz |-> 128],
                    new_name |-> new_name, start_clu |-> start_clu,
                    ccount |-> ccount, stack |-> [i \in 1 .. BufUnits |-> g]]
    /\ result = NoCall
    /\ LibInit

BuildFileDentrySet ==
    /\ pc = "build"
    /\ \E r \in {exfat_build_file_dentry_set(call.name, call.attr, call.now)} :
        result' = [built |-> r]
    /\ pc' = "update"
    /\ UNCHANGED call
    /\ LibUnchanged

UpdateFileDentrySet ==
    /\ pc = "update"
    /\ \E r \in {exfat_update_file_dentry_set(
                    result.built.dentry_set, result.built.dentry_count,
                    call.new_name, call.start_clu, call.ccount, call.stack)} :
        result' = [built |-> result.built, updated |-> r]
    /\ pc' = "updated"
    /\ UNCHANGED call
    /\ LibUnchanged

NextDset == BuildFileDentrySet \/ UpdateFileDentrySet

SpecDset == InitDset /\ [][NextDset]_vars

(***************************************************************************)
(* The allocator (create.c, exfat_fs.c).                                   *)
(***************************************************************************)
ENOSPC == 28

\* a faulty exfat_find_zero_bit that starts one cluster late
exfat_find_zero_bit_late(bmap, start_clu, next) ==
    LET zeros == {c \in HeapClusters : c > start_clu /\ ~exfat_bitmap_get(bmap, c)}
    IN  IF zeros = {} THEN [ret |-> 1, next |-> next]
        ELSE [ret |-> 0, next |-> CHOOSE c \in zeros : \A d \in zeros : c <= d]

\* exfat_find_zero_bit: ret and *next, which is left alone when no bit is clear
RECURSIVE exfat_find_zero_bit(_, _, _)
exfat_find_zero_bit(bmap, start_clu, next) ==
    IF ~(start_clu < NClus + EXFAT_FIRST_CLUSTER) THEN [ret |-> 1, next |-> next]
    ELSE IF ~exfat_bitmap_get(bmap, start_clu) THEN [ret |-> 0, next |-> start_clu]
    ELSE exfat_find_zero_bit(bmap, start_clu + 1, next)

\* One of the two loops of find_empty_cluster, from start up to end: whether
\* it returned 0, whether exfat_find_zero_bit failed, start and *new_clu.
RECURSIVE FindLoop(_, _, _, _, _)
FindLoop(alloc, disk, start, end, new_clu) ==
    IF ~(start < end)
    THEN [found |-> FALSE, failed |-> FALSE, start |-> start, new_clu |-> new_clu]
    ELSE LET z == exfat_find_zero_bit(alloc, start, new_clu)
         IN  IF z.ret # 0
             THEN [found |-> FALSE, failed |-> TRUE, start |-> start,
                   new_clu |-> z.next]
             ELSE IF ~exfat_bitmap_get(disk, z.next)
             THEN [found |-> TRUE, failed |-> FALSE, start |-> start,
                   new_clu |-> z.next]
             ELSE FindLoop(alloc, disk, z.next + 1, end, z.next)

\* The result of find_empty_cluster: ret and *new_clu.
find_empty_cluster(alloc, disk, start) ==
    LET first == FindLoop(alloc, disk, start, NClus + EXFAT_FIRST_CLUSTER,
                          EXFAT_EOF_CLUSTER)
        second == FindLoop(alloc, disk, EXFAT_FIRST_CLUSTER, first.start,
                           first.new_clu)
    IN  IF first.found THEN [ret |-> 0, new_clu |-> first.new_clu]
        ELSE IF second.found THEN [ret |-> 0, new_clu |-> second.new_clu]
        ELSE IF second.failed THEN [ret |-> -ENOSPC, new_clu |-> second.new_clu]
        ELSE [ret |-> -ENOSPC, new_clu |-> EXFAT_EOF_CLUSTER]

\* the on-disk bitmaps find_empty_cluster is run against
DiskBitmaps ==
    {Bits(u) : u \in {{}, HeapClusters, SysClus,
                      {c \in HeapClusters : c % 2 = 0},
                      {c \in HeapClusters : c >= FirstFileClus + 1},
                      {FirstFileClus, FirstFileClus + 2}}}

InitFind ==
    /\ pc = "find"
    /\ \E used \in SUBSET HeapClusters, disk \in DiskBitmaps,
          start \in HeapClusters :
          call = [alloc |-> Bits(used), disk |-> disk, start |-> start]
    /\ result = NoCall
    /\ LibInit

FindEmptyCluster ==
    /\ pc = "find"
    /\ \E r \in {find_empty_cluster(call.alloc, call.disk, call.start)} :
        result' = r
    /\ pc' = "found"
    /\ UNCHANGED call
    /\ LibUnchanged

NextFind == FindEmptyCluster

SpecFind == InitFind /\ [][NextFind]_vars

(***************************************************************************)
(* exfat_lookup_dentry_set on its own: a directory of one or two clusters, *)
(* the second one not adjacent to the first, filled with file dentry sets, *)
(* deleted dentries and end-of-directory dentries.                          *)
(***************************************************************************)
StoredName == <<65, 66>>
OtherName == <<88, 89>>
DeletedDe == [type |-> EXFAT_FILE - 128]

StoredSet ==
    exfat_build_file_dentry_set(StoredName, 32,
        [date |-> 23394, time |-> 35000, time_ms |-> 100, tz |-> 128]).dentry_set

\* every filling of n dentry slots
RECURSIVE DirFills(_)
DirFills(n) ==
    IF n = 0 THEN {<<>>}
    ELSE {<<LastDe>> \o t : t \in DirFills(n - 1)}
         \cup {<<DeletedDe>> \o t : t \in DirFills(n - 1)}
         \cup (IF n >= Len(StoredSet)
               THEN {StoredSet \o t : t \in DirFills(n - Len(StoredSet))}
               ELSE {})

LookupFilters ==
    {[type |-> EXFAT_FILE, has_filter |-> TRUE, param |-> StoredName],
     [type |-> EXFAT_FILE, has_filter |-> TRUE, param |-> OtherName],
     TypeFilter(EXFAT_FILE), TypeFilter(EXFAT_BITMAP)}

LookupParent(nclus) ==
    [alloc_exfat_inode(ATTR_SUBDIR) EXCEPT !.first_clus = F,
                                           !.size = nclus * ClusSize]

InitLookup ==
    /\ pc = "lookup"
    /\ \E nclus \in 0 .. 2, filter \in LookupFilters :
        \E fill \in DirFills(nclus * ClusSize) :
          /\ call = [parent |-> LookupParent(nclus), filter |-> filter]
          /\ dirs = [NoItems EXCEPT
                        ![F] = SubSeq(fill, 1, Min(ClusSize, Len(fill))),
                        ![F + 2] = SubSeq(fill, ClusSize + 1, Len(fill))]
          /\ fat = [SysFat EXCEPT
                        ![F] = IF nclus = 2 THEN F + 2 ELSE EXFAT_EOF_CLUSTER,
                        ![F + 2] = IF nclus = 2 THEN EXFAT_EOF_CLUSTER ELSE @]
    /\ result = NoCall
    /\ options = "no"
    /\ LibRest

ExfatLookupDentrySet ==
    /\ pc = "lookup"
    /\ \E r \in {exfat_lookup_dentry_set(call.parent, call.filter)} :
        result' = r
    /\ pc' = "looked"
    /\ UNCHANGED call
    /\ LibUnchanged

NextLookup == ExfatLookupDentrySet

SpecLookup == InitLookup /\ [][NextLookup]_vars

(***************************************************************************)
(* exfat_add_dentry_set on its own.  The device is dirs: every heap        *)
(* cluster holds ClusSize dentry slots, so exfat->clus_size is             *)
(* ClusSize * DENTRY_SIZE bytes here; the cluster heap starts two clusters *)
(* into the device.  The parent is a directory other than the root, with   *)
(* its own dentry set in the root cluster.                                  *)
(***************************************************************************)
clus_size == ClusSize * DENTRY_SIZE

exfat_c2o(clus) ==
    IF clus < EXFAT_FIRST_CLUSTER THEN -1 ELSE clus * clus_size

\* the slot <<cluster, position>> at a device offset
SlotAt(offset) ==
    <<offset \div clus_size, (offset % clus_size) \div DENTRY_SIZE + 1>>

\* exfat_write of the first size bytes of buf at a device offset: the slots
\* that lie on the device are stored, the return value is the bytes written
exfat_write(dev, buf, size, offset) ==
    LET n == size \div DENTRY_SIZE
        At(i) == SlotAt(offset + (i - 1) * DENTRY_SIZE)
        on == {i \in 1 .. n : heap_clus(At(i)[1])}
    IN  IF offset < 0 THEN [ret |-> -1, dev |-> dev, slots |-> {}]
        ELSE [ret |-> Cardinality(on) * DENTRY_SIZE,
              dev |-> [c \in HeapClusters |->
                        [q \in 1 .. ClusSize |->
                           IF \E i \in on : At(i) = <<c, q>>
                           THEN buf[CHOOSE i \in on : At(i) = <<c, q>>]
                           ELSE dev[c][q]]],
              slots |-> {At(i) : i \in on}]

\* the loop of exfat_map_cluster
RECURSIVE MapLoop(_, _, _, _, _)
MapLoop(fats, inode, clu, count, last_count) ==
    IF count * clus_size > inode.size THEN [ret |-> -EINVAL, clu |-> clu]
    ELSE IF count = last_count THEN [ret |-> 0, clu |-> clu]
    ELSE IF ~heap_clus(clu) THEN [ret |-> -EINVAL, clu |-> clu]
    ELSE MapLoop(fats, inode,
                 IF inode.is_contiguous THEN clu + 1 ELSE fats[clu],
                 count + 1, last_count)

exfat_map_cluster(fats, inode, offset) ==
    IF ~heap_clus(inode.first_clus) THEN [ret |-> -EINVAL, clu |-> 0]
    ELSE MapLoop(fats, inode, inode.first_clus, 1,
                 DIV_ROUND_UP(IF offset = -1 THEN inode.size ELSE offset,
                              clus_size))

\* the FAT after the write set_fat issues; a slot outside the heap's part of
\* the FAT lies elsewhere on the device
fat_written(fats, w) ==
    IF w.clus \in DOMAIN fats THEN [fats EXCEPT ![w.clus] = w.val] ELSE fats

\* exfat_alloc_cluster for an inode other than the root, with zero_fill; st
\* is the device, the FAT, alloc_bitmap, exfat->start_clu and the inode; the
\* result carries the writes of its set_fat calls in fat_w
exfat_alloc_cluster(st) ==
    LET inode == st.inode
        start == IF st.start_clu # EXFAT_EOF_CLUSTER THEN st.start_clu
                 ELSE EXFAT_FIRST_CLUSTER
        Linked(new_clu, z) ==
            \* z: the FAT with the new cluster, the zeroed device, the last
            \* cluster of the inode
            LET fat2 == IF inode.size # 0
                        THEN fat_written(z.fat, set_fat(z.m.clu, new_clu).w[1])
                        ELSE z.fat
                fat_w == set_fat(new_clu, EXFAT_EOF_CLUSTER).w
                         \o (IF inode.size # 0 THEN set_fat(z.m.clu, new_clu).w
                             ELSE <<>>)
            IN  Bind(IF inode.size # 0
                     THEN exfat_update_file_dentry_set(
                              inode.dentry_set, inode.dentry_count, NoName, 0,
                              DIV_ROUND_UP(inode.size, clus_size) + 1, <<>>)
                     ELSE exfat_update_file_dentry_set(
                              inode.dentry_set, inode.dentry_count, NoName,
                              new_clu, 1, <<>>),
                     LAMBDA u :
                Bind(exfat_write(z.dev, u.dset,
                                 inode.dentry_count * DENTRY_SIZE,
                                 inode.dev_offset),
                     LAMBDA w :
                IF u.ret # 0 \/ w.ret # inode.dentry_count * DENTRY_SIZE
                THEN [ret |-> -EIO, new_clu |-> new_clu, fat_w |-> fat_w,
                      st |-> [st EXCEPT !.start_clu = new_clu, !.fat = fat2,
                                        !.dev = IF u.ret # 0 THEN z.dev ELSE w.dev,
                                        !.inode.dentry_set = u.dset]]
                ELSE [ret |-> 0, new_clu |-> new_clu, fat_w |-> fat_w,
                      st |-> [st EXCEPT
                                !.start_clu = new_clu, !.fat = fat2,
                                !.dev = w.dev,
                                !.alloc = exfat_bitmap_set(@, new_clu),
                                !.inode.dentry_set = u.dset,
                                !.inode.first_clus =
                                    IF inode.size = 0 THEN new_clu ELSE @,
                                !.inode.size = @ + clus_size]]))
        Found(new_clu) ==
            Bind([fat |-> fat_written(st.fat,
                                      set_fat(new_clu, EXFAT_EOF_CLUSTER).w[1]),
                  dev |-> exfat_write(st.dev, [q \in 1 .. ClusSize |-> LastDe],
                                      clus_size, exfat_c2o(new_clu)).dev],
                 LAMBDA y :
            Bind([fat |-> y.fat, dev |-> y.dev,
                  m |-> exfat_map_cluster(y.fat, inode, -1)],
                 LAMBDA z :
            IF inode.size # 0 /\ z.m.ret # 0
            THEN [ret |-> z.m.ret, new_clu |-> new_clu,
                  fat_w |-> set_fat(new_clu, EXFAT_EOF_CLUSTER).w,
                  st |-> [st EXCEPT !.start_clu = new_clu, !.fat = z.fat,
                                    !.dev = z.dev]]
            ELSE Linked(new_clu, z)))
    IN  IF inode.dentry_set = <<>> \/ inode.dev_offset = 0
        THEN [ret |-> -EINVAL, st |-> st, new_clu |-> 0, fat_w |-> <<>>]
        ELSE Bind(find_empty_cluster(st.alloc, disk_bitmap, start),
                  LAMBDA f :
                    IF f.ret # 0
                    THEN [ret |-> -ENOSPC, st |-> st, new_clu |-> 0,
                          fat_w |-> <<>>]
                    ELSE Found(f.new_clu))

\* exfat_add_dentry_set: ret, the state after it, the next location and the
\* slots its writes of dset stored
exfat_add_dentry_set(st, loc, dset, dcount, need_next_loc) ==
    LET parent == st.inode
        size == dcount * DENTRY_SIZE
        rest == loc.file_offset % clus_size
        head == IF rest # 0 THEN clus_size - rest ELSE 0
        Done(s, dev, slots, dev_offset, sz) ==
            [ret |-> 0, st |-> [s EXCEPT !.dev = dev], slots |-> slots,
             loc |-> IF need_next_loc
                     THEN [file_offset |-> loc.file_offset + size,
                           dev_offset |-> dev_offset + sz]
                     ELSE loc]
        Fail(e, s, dev, slots) ==
            [ret |-> e, st |-> [s EXCEPT !.dev = dev], slots |-> slots,
             loc |-> loc]
        Split(a) ==
            Bind(IF rest # 0
                 THEN exfat_write(a.st.dev, dset, head, loc.dev_offset)
                 ELSE [ret |-> 0, dev |-> a.st.dev, slots |-> {}],
                 LAMBDA w1 :
            Bind(exfat_write(w1.dev,
                             SubSeq(dset, head \div DENTRY_SIZE + 1, dcount),
                             size - head, exfat_c2o(a.new_clu)),
                 LAMBDA w2 :
            IF w1.ret # head THEN Fail(-EIO, a.st, w1.dev, w1.slots)
            ELSE IF w2.ret # size - head
            THEN Fail(-EIO, a.st, w2.dev, w1.slots \cup w2.slots)
            ELSE Done(a.st, w2.dev, w1.slots \cup w2.slots,
                      exfat_c2o(a.new_clu), size - head)))
    IN  IF parent.dentry_set = <<>> \/ parent.dev_offset = -1
        THEN Fail(-EINVAL, st, st.dev, {})
        ELSE IF loc.file_offset + size >= parent.size
        THEN Bind(exfat_alloc_cluster(st),
                  LAMBDA a : IF a.ret # 0 THEN Fail(a.ret, a.st, a.st.dev, {})
                             ELSE Split(a))
        ELSE Bind(exfat_write(st.dev, dset, size, loc.dev_offset),
                  LAMBDA w : IF w.ret # size THEN Fail(-EIO, st, w.dev, w.slots)
                             ELSE Done(st, w.dev, w.slots, loc.dev_offset, size))

\* the calls: a parent of nclus clusters F, F + 2 (not adjacent on the
\* device), a location at a dentry boundary of the parent, a built set
AddTime == [date |-> 23394, time |-> 35000, time_ms |-> 100, tz |-> 128]
ParentSet == exfat_build_file_dentry_set(<<68>>, ATTR_SUBDIR, AddTime)
AddSets ==
    {exfat_build_file_dentry_set(n, 32, AddTime) :
        n \in {<<65>>, [i \in 1 .. ENTRY_NAME_MAX + 1 |-> 64 + i]}}
OtherDe == [type |-> EXFAT_VOLUME]

ParentClusters(nclus) ==
    IF nclus = 0 THEN <<>> ELSE IF nclus = 1 THEN <<F>> ELSE <<F, F + 2>>

\* the device offset of a file offset of the parent; EOF at the end
ParentOffset(nclus, file_offset) ==
    IF file_offset >= nclus * clus_size THEN -1
    ELSE exfat_c2o(ParentClusters(nclus)[file_offset \div clus_size + 1])
         + (file_offset % clus_size)

InitAdd ==
    /\ pc = "add"
    /\ \E nclus \in 0 .. 2, b \in AddSets, start_clu \in {EXFAT_EOF_CLUSTER, F},
          others \in {{}, {F + 1}, HeapClusters} :
        \E k \in 0 .. nclus * ClusSize :
          LET mine == {ParentClusters(nclus)[i] : i \in 1 .. nclus}
          IN
          /\ call = [parent |->
                        [first_clus |-> IF nclus = 0 THEN 0 ELSE F,
                         size |-> nclus * clus_size,
                         is_contiguous |-> FALSE,
                         dentry_set |-> ParentSet.dentry_set,
                         dentry_count |-> ParentSet.dentry_count,
                         dev_offset |-> exfat_c2o(RootClus) + DENTRY_SIZE],
                     loc |-> [file_offset |-> k * DENTRY_SIZE,
                              dev_offset |->
                                  ParentOffset(nclus, k * DENTRY_SIZE)],
                     dset |-> b.dentry_set, dcount |-> b.dentry_count,
                     start_clu |-> start_clu]
          /\ dirs = [c \in HeapClusters |->
                       [q \in 1 .. ClusSize |->
                          IF c \in mine THEN LastDe ELSE OtherDe]]
          /\ fat = [c \in HeapClusters |->
                      IF c = F /\ nclus = 2 THEN F + 2
                      ELSE IF c \in mine \cup SysClus \cup others
                      THEN EXFAT_EOF_CLUSTER
                      ELSE EXFAT_FREE_CLUSTER]
          /\ alloc_bitmap = Bits(mine \cup SysClus \cup others)
          /\ disk_bitmap = Bits(mine \cup SysClus \cup others)
    /\ result = NoCall
    /\ webos = NoWrapper
    /\ options = "yes"
    /\ fault = NoFault
    /\ boot = [main |-> CleanBoot, backup |-> CleanBoot]
    /\ bs = CleanBoot
    /\ bitmap_dev = Bits(SysClus)
    /\ root = alloc_exfat_inode(0)
    /\ dir_list = <<>>
    /\ de_iter = NullIter
    /\ dirty = FALSE
    /\ dirty_fat = FALSE
    /\ exfat_stat = [dir_count |-> 0, file_count |-> 0, error_count |-> 0,
                     fixed_count |-> 0]
    /\ ret = 0
    /\ exit_code = -1
    /\ hist = NoHist

ExfatAddDentrySet ==
    /\ pc = "add"
    /\ \E r \in {exfat_add_dentry_set(
                    [dev |-> dirs, fat |-> fat, alloc |-> alloc_bitmap,
                     start_clu |-> call.start_clu, inode |-> call.parent],
                    call.loc, call.dset, call.dcount, TRUE)} :
        /\ result' = [ret |-> r.ret, parent |-> r.st.inode, loc |-> r.loc,
                      start_clu |-> r.st.start_clu, slots |-> r.slots]
        /\ dirs' = r.st.dev
        /\ fat' = r.st.fat
        /\ alloc_bitmap' = r.st.alloc
    /\ pc' = "added"
    /\ UNCHANGED <<call, webos, options, fault, boot, bitmap_dev, bs, disk_bitmap,
                   root, dir_list, de_iter, dirty, dirty_fat, exfat_stat, ret,
                   exit_code, hist>>

NextAdd == ExfatAddDentrySet

SpecAdd == InitAdd /\ [][NextAdd]_vars

(***************************************************************************)
(* exfat_bitmap_set_range on its own.                                       *)
(***************************************************************************)
InitRange ==
    /\ pc = "range"
    /\ \E used \in {{}, {F}}, start_clus \in 0 .. (EXFAT_FIRST_CLUSTER + NClus + 1),
          count \in 0 .. (NClus + 1) :
          call = [bitmap |-> Bits(used), start_clus |-> start_clus,
                  count |-> count]
    /\ result = NoCall
    /\ LibInit

ExfatBitmapSetRange ==
    /\ pc = "range"
    /\ result' = exfat_bitmap_set_range(call.bitmap, call.start_clus, call.count)
    /\ pc' = "ranged"
    /\ UNCHANGED call
    /\ LibUnchanged

NextRange == ExfatBitmapSetRange

SpecRange == InitRange /\ [][NextRange]_vars

(***************************************************************************)
(* exfat_calc_name_hash on its own, on two names.                           *)
(***************************************************************************)
HashLen == 2
HashUnits == {65, 66, 68, 72, 97, 98}

RECURSIVE NamesOfLen(_)
NamesOfLen(n) ==
    IF n = 0 THEN {<<>>}
    ELSE {<<u>> \o t : u \in HashUnits, t \in NamesOfLen(n - 1)}

HashNames == UNION {NamesOfLen(n) : n \in 1 .. HashLen}

InitHash ==
    /\ pc = "hash"
    /\ \E a \in HashNames, b \in HashNames : call = [a |-> a, b |-> b]
    /\ result = NoCall
    /\ LibInit

ExfatCalcNameHash ==
    /\ pc = "hash"
    /\ result' = [a |-> exfat_calc_name_hash(call.a, Len(call.a)),
                  b |-> exfat_calc_name_hash(call.b, Len(call.b))]
    /\ pc' = "hashed"
    /\ UNCHANGED call
    /\ LibUnchanged

NextHash == ExfatCalcNameHash

SpecHash == InitHash /\ [][NextHash]_vars

(***************************************************************************)
(* The size checks of read_boot_region on their own.  clu_count has        *)
(* ClusBits bits and the product clu_count * EXFAT_CLUSTER_SIZE is formed  *)
(* in the width of clu_count; vol_length has 64 bits and its product is    *)
(* exact.  MaxClusShift stands for the 32 MB limit of the cluster size.    *)
(***************************************************************************)
MaxClusShift == 4

EXFAT_SECTOR_SIZE(bsx) == 2 ^ bsx.sect_size_bits
EXFAT_CLUSTER_SIZE(bsx) == 2 ^ (bsx.sect_size_bits + bsx.sect_per_clus_bits)

\* the product of the last check as the code forms it
clu_bytes(bsx) == (bsx.clu_count * EXFAT_CLUSTER_SIZE(bsx)) % (2 ^ ClusBits)

read_boot_region_sizes(bsx, size) ==
    IF EXFAT_CLUSTER_SIZE(bsx) > 2 ^ MaxClusShift THEN -EINVAL
    ELSE IF bsx.vol_length * EXFAT_SECTOR_SIZE(bsx) > size THEN -EINVAL
    ELSE IF clu_bytes(bsx) > size THEN -EINVAL
    ELSE 0

InitBoot ==
    /\ pc = "boot_sizes"
    /\ \E sect_size_bits \in 0 .. 1, sect_per_clus_bits \in 0 .. MaxClusShift,
          vol_length \in {8, 64}, clu_count \in 0 .. (2 ^ ClusBits - 1),
          size \in {32, 100} :
          call = [bsx |-> [sect_size_bits |-> sect_size_bits,
                           sect_per_clus_bits |-> sect_per_clus_bits,
                           vol_length |-> vol_length,
                           clu_count |-> clu_count],
                  size |-> size]
    /\ result = NoCall
    /\ LibInit

ReadBootRegionSizes ==
    /\ pc = "boot_sizes"
    /\ result' = read_boot_region_sizes(call.bsx, call.size)
    /\ pc' = "boot_sized"
    /\ UNCHANGED call
    /\ LibUnchanged

NextBoot == ReadBootRegionSizes

SpecBoot == InitBoot /\ [][NextBoot]_vars

(***************************************************************************)
(* The webOS wrapper (src/webos/exfatfsck.c) after fork(): the wrapper,    *)
(* its alarm and the fsck child run side by side.  pc is the position of   *)
(* the wrapper; SIGALRM is delivered at the step at which the alarm         *)
(* expires, and its handler does nothing but return.                        *)
(***************************************************************************)
EXIT_FAILURE == 1
EXIT_RO_DEVICE == 23
EXIT_DEVICE_REMOVED == 160
EXIT_TIMEOUT == 161
FSCK_EXIT_SYNTAX_ERROR == 16
FSCK_EXIT_USER_CANCEL == 32
TimeoutSecs == 5

\* the statuses the fsck child exits with
ChildStatuses ==
    {FSCK_EXIT_NO_ERRORS, FSCK_EXIT_CORRECTED, FSCK_EXIT_ERRORS_LEFT,
     FSCK_EXIT_OPERATION_ERROR, FSCK_EXIT_SYNTAX_ERROR}

InitWrapper ==
    /\ pc = "setup_timer"
    /\ \E timeout_secs \in {0, TimeoutSecs}, need_writeable \in BOOLEAN,
          stat \in {"ok", "enoent", "fail"} :
          webos = [timeout_secs |-> timeout_secs,
                   need_writeable |-> need_writeable, stat |-> stat,
                   alarm |-> "off", child |-> "running", child_status |-> 0,
                   fsck_status |-> 0, exit_status |-> 0, sigterm |-> FALSE,
                   expired_running |-> FALSE]
    /\ call = NoCall
    /\ result = NoCall
    /\ options = "no"
    /\ fault = NoFault
    /\ boot = [main |-> CleanBoot, backup |-> CleanBoot]
    /\ bs = CleanBoot
    /\ fat = SysFat
    /\ dirs = NoItems
    /\ bitmap_dev = Bits(SysClus)
    /\ alloc_bitmap = Bits({})
    /\ disk_bitmap = Bits({})
    /\ root = alloc_exfat_inode(0)
    /\ dir_list = <<>>
    /\ de_iter = NullIter
    /\ dirty = FALSE
    /\ dirty_fat = FALSE
    /\ exfat_stat = [dir_count |-> 0, file_count |-> 0, error_count |-> 0,
                     fixed_count |-> 0]
    /\ ret = 0
    /\ exit_code = -1
    /\ hist = NoHist

WrapperUnchanged ==
    UNCHANGED <<call, result, options, fault, boot, fat, bitmap_dev, dirs, bs,
                alloc_bitmap, disk_bitmap, root, dir_list, de_iter, dirty,
                dirty_fat, exfat_stat, ret, exit_code, hist>>

\* main: if (timeout_secs && setup_timer(timeout_secs) != 0); setup_timer
\* installs the handler and calls alarm()
setup_timer ==
    /\ pc = "setup_timer"
    /\ webos' = [webos EXCEPT
                    !.alarm = IF webos.timeout_secs # 0 THEN "armed" ELSE @]
    /\ pc' = "wait_for_fsck"
    /\ WrapperUnchanged

\* wait_for_fsck: the status waitpid() returned for the child: an exit
\* status ends the loop, a death by a signal (WIFEXITED false) leads to the
\* next waitpid()
waitpid_status ==
    IF webos.child = "exited"
    THEN /\ webos' = [webos EXCEPT !.child = "reaped",
                                   !.fsck_status = webos.child_status]
         /\ pc' = "status"
    ELSE /\ webos' = [webos EXCEPT !.child = "reaped"]
         /\ pc' = "wait_for_fsck"

\* wait_for_fsck: waitpid() is entered; it returns at once when the child has
\* ended, it fails with ECHILD when the child was reaped before (kill_fsck
\* then finds no process, *exit_status = EXIT_FAILURE), it blocks otherwise
waitpid_enter ==
    /\ pc = "wait_for_fsck"
    /\ IF webos.child \in {"exited", "signaled"} THEN waitpid_status
       ELSE IF webos.child = "reaped"
       THEN /\ webos' = [webos EXCEPT !.fsck_status = EXIT_FAILURE]
            /\ pc' = "status"
       ELSE /\ pc' = "waitpid"
            /\ UNCHANGED webos
    /\ WrapperUnchanged

\* wait_for_fsck: the blocked waitpid() returns the status of the child
waitpid_return ==
    /\ pc = "waitpid"
    /\ webos.child \in {"exited", "signaled"}
    /\ waitpid_status
    /\ WrapperUnchanged

\* the alarm expires: handle_timeout runs and returns; a blocked waitpid()
\* fails with EINTR, any other position of the wrapper goes on as before
alarm_expires ==
    /\ webos.alarm = "armed"
    /\ pc # "exited"
    /\ webos' = [webos EXCEPT !.alarm = "expired",
                              !.expired_running = (webos.child = "running")]
    /\ pc' = IF pc = "waitpid" /\ webos.child = "running" THEN "kill_fsck"
             ELSE pc
    /\ WrapperUnchanged

\* kill_fsck: kill(fsck_pid, SIGTERM); SIGTERM ends a running child
kill_fsck ==
    /\ pc = "kill_fsck"
    /\ webos' = [webos EXCEPT
                    !.sigterm = TRUE,
                    !.child = "exited",
                    !.child_status = IF webos.child = "running" THEN -1 ELSE @]
    /\ pc' = "reap"
    /\ WrapperUnchanged

\* kill_fsck: waitpid(fsck_pid, NULL, 0), then *exit_status =
\* FSCK_EXIT_USER_CANCEL in wait_for_fsck
kill_fsck_reap ==
    /\ pc = "reap"
    /\ webos.child = "exited"
    /\ webos' = [webos EXCEPT !.child = "reaped",
                              !.fsck_status = FSCK_EXIT_USER_CANCEL]
    /\ pc' = "status"
    /\ WrapperUnchanged

\* main: the exit status of the wrapper from fsck_status
wrapper_exit_status(w) ==
    IF w.fsck_status = FSCK_EXIT_OPERATION_ERROR
    THEN IF w.stat = "enoent" THEN EXIT_DEVICE_REMOVED
         ELSE IF w.stat = "fail" THEN EXIT_FAILURE
         ELSE IF w.need_writeable THEN EXIT_RO_DEVICE
         ELSE 0
    ELSE IF w.fsck_status = FSCK_EXIT_USER_CANCEL THEN EXIT_TIMEOUT
    ELSE IF w.fsck_status = FSCK_EXIT_SYNTAX_ERROR THEN EXIT_FAILURE
    ELSE IF w.fsck_status # FSCK_EXIT_NO_ERRORS
            /\ w.fsck_status # FSCK_EXIT_CORRECTED
    THEN EXIT_FAILURE
    ELSE 0

wrapper_exit ==
    /\ pc = "status"
    /\ webos' = [webos EXCEPT !.exit_status = wrapper_exit_status(webos)]
    /\ pc' = "exited"
    /\ WrapperUnchanged

\* the fsck child exits by itself
fsck_exits ==
    /\ webos.child = "running"
    /\ pc # "exited"
    /\ \E status \in ChildStatuses :
        webos' = [webos EXCEPT !.child = "exited", !.child_status = status]
    /\ UNCHANGED pc
    /\ WrapperUnchanged

\* the fsck child is killed by a signal that is not the wrapper's
fsck_signaled ==
    /\ webos.child = "running"
    /\ pc # "exited"
    /\ webos' = [webos EXCEPT !.child = "signaled", !.child_status = -1]
    /\ UNCHANGED pc
    /\ WrapperUnchanged

NextWrapper ==
    \/ setup_timer
    \/ waitpid_enter
    \/ waitpid_return
    \/ alarm_expires
    \/ kill_fsck
    \/ kill_fsck_reap
    \/ wrapper_exit
    \/ fsck_exits
    \/ fsck_signaled

SpecWrapper == InitWrapper /\ [][NextWrapper]_vars

(***************************************************************************)
(* Properties.                                                             *)
(***************************************************************************)
\* detected inconsistencies that were left: per-file errors not fixed, or a
\* traversal that returned -EINVAL
ErrorsLeft == exfat_stat.error_count > exfat_stat.fixed_count \/ ret = -EINVAL

\* C1: when fsck exits without an I/O error, the exit code is 0 only if no
\* inconsistency was detected, 1 only if a repair was accepted and nothing
\* detected was left, and 4 whenever a detected inconsistency was left.
C1_ExitCodeReflectsOutcome ==
    (pc = "done" /\ ret # -EIO) =>
        /\ exit_code = FSCK_EXIT_NO_ERRORS =>
                exfat_stat.error_count = 0 /\ ~dirty
        /\ exit_code = FSCK_EXIT_CORRECTED => dirty /\ ~ErrorsLeft
        /\ ErrorsLeft => exit_code = FSCK_EXIT_ERRORS_LEFT

\* C2: in repair-no mode no write is issued to the device.
C2_NoWriteInRepairNo == options = "no" => hist.issued = {}

\* C3: in the write modes no repair write reaches the device while the
\* volume-dirty flag on disk is clear, and the flag the run has set is clear
\* again only once main has passed traversal, reclamation and fsync with
\* ret = 0.
C3_DirtyFlagBrackets ==
    RepairWrite(options) =>
        /\ hist.early = {}
        /\ (hist.marked /\ ~boot.main.vol_dirty) =>
                (pc \in {"exit", "done"} /\ ret = 0)

\* C4: in the write modes, a run that has set the volume-dirty flag and ends
\* with an error or with a detected inconsistency left exits with the flag
\* still set on disk.
C4_DirtyLeftOnFailure ==
    (pc = "done" /\ RepairWrite(options) /\ hist.marked
        /\ (ret # 0 \/ ErrorsLeft)) => boot.main.vol_dirty

\* the clusters reached by walking the FAT from clus, n of them at most
RECURSIVE FatChain(_, _)
FatChain(clus, n) ==
    IF n = 0 \/ ~heap_clus(clus) THEN <<>>
    ELSE <<clus>> \o FatChain(fat[clus], n - 1)

\* the clusters reached from node.first_clus
Reached(node) ==
    IF node.is_contiguous
    THEN [k \in 1 .. DIV_ROUND_UP(node.size, ClusSize) |-> node.first_clus + k - 1]
    ELSE FatChain(node.first_clus, NClus + 1)

Range(seq) == {seq[i] : i \in DOMAIN seq}

\* C5: every cluster of every accepted chain is a heap cluster marked in
\* alloc_bitmap, no cluster occurs twice in a chain, and no two accepted
\* chains share a cluster.
C5_NoClusterInTwoInodes ==
    /\ \A a \in hist.chains :
        /\ \A c \in Range(Reached(a.node)) :
                heap_clus(c) /\ exfat_bitmap_get(alloc_bitmap, c)
        /\ Cardinality(Range(Reached(a.node))) = Len(Reached(a.node))
    /\ \A a, b \in hist.chains :
        a # b => Range(Reached(a.node)) \cap Range(Reached(b.node)) = {}

\* a duplicated cluster was met and the file truncated, next to another
\* accepted chain that holds clusters
C5_Witness ==
    /\ pc = "done"
    /\ \E a, b \in hist.chains :
        /\ a # b
        /\ "ER_FILE_DUPLICATED_CLUS" \in a.codes
        /\ Reached(a.node) # <<>>
        /\ b.dir # 0
        /\ Reached(b.node) # <<>>

\* C6: for every accepted chain, ceil(size / C) is the number of clusters
\* reached from first_clus, and a FAT chain ends with end-of-chain.
C6_SizeMatchesChain ==
    \A a \in hist.chains :
        LET r == Reached(a.node)
        IN  /\ Len(r) = DIV_ROUND_UP(a.node.size, ClusSize)
            /\ \A i \in DOMAIN r : heap_clus(r[i])
            /\ (~a.node.is_contiguous /\ r # <<>>) =>
                    fat[r[Len(r)]] = EXFAT_EOF_CLUSTER

\* a FAT chain accepted after a truncation that kept clusters
C6_Witness ==
    \E a \in hist.chains :
        /\ a.codes \cap TruncateCodes # {}
        /\ ~a.node.is_contiguous
        /\ Len(Reached(a.node)) >= 1
        /\ fat[a.node.first_clus] = EXFAT_EOF_CLUSTER

\* C7: the dentry set read_file has accepted last carries, in its primary
\* dentry, the checksum of the set as the buffer holds it.
C7_ChecksumSealed ==
    hist.last # <<>> =>
        hist.last[1].set[1].checksum = file_calc_checksum(hist.last[1].set, 1)

\* a set accepted after a truncation and a checksum repair
C7_Witness ==
    /\ hist.last # <<>>
    /\ "ER_DE_CHECKSUM" \in hist.last[1].codes
    /\ hist.last[1].codes \cap TruncateCodes # {}

\* C8: the stream dentry of the set read_file has accepted last has
\* valid_size <= size; a directory's size is a multiple of the cluster size;
\* size = 0 comes with start cluster 0 and NoFatChain clear.
C8_StreamDentrySound ==
    hist.last # <<>> =>
        LET file_de == hist.last[1].set[1]
            stream_de == hist.last[1].set[2]
        IN  /\ stream_de.valid_size <= stream_de.size
            /\ HasFlag(file_de.attr, ATTR_SUBDIR) => stream_de.size % ClusSize = 0
            /\ stream_de.size = 0 =>
                    /\ stream_de.start_clu = EXFAT_FREE_CLUSTER
                    /\ ~HasFlag(stream_de.flags, EXFAT_SF_CONTIGUOUS)

\* a set accepted after a truncation that cut valid_size down
C8_Witness ==
    /\ hist.last # <<>>
    /\ hist.last[1].codes \cap TruncateCodes # {}
    /\ hist.last[1].set[2].size > 0
    /\ hist.last[1].set[2].valid_size = hist.last[1].set[2].size

\* a set accepted with size 0 after NoFatChain was cleared
C8_WitnessZero ==
    /\ hist.last # <<>>
    /\ "ER_FILE_ZERO_NOFAT" \in hist.last[1].codes

\* C9: after write_dirty_bitmap has returned 0, the on-disk bitmap agrees
\* with alloc_bitmap on every heap cluster.
C9_BitmapWrittenBack ==
    (pc = "bitmap_done" /\ ret = 0) =>
        \A c \in BmHeap : bitmap_dev[c] = alloc_bitmap[c]

\* a pass that returned 0 after writing sectors
C9_Witness ==
    /\ pc = "bitmap_done"
    /\ ret = 0
    /\ "bitmap" \in hist.issued

C11_PercInUseKept ==
    (pc = "done" /\ fault = NoFault /\ "boot_restore" \in hist.issued) =>
        boot.main.perc_in_use = 255


\* code units 15k .. 15k+14 of a name, zero-padded past its length
NameSlice(name, k) ==
    [j \in 1 .. ENTRY_NAME_MAX |->
        IF ENTRY_NAME_MAX * k + j <= Len(name)
        THEN name[ENTRY_NAME_MAX * k + j] ELSE 0]

\* the Name dentries of dset hold the name, 15 code units each
HoldsName(dset, name) ==
    \A k \in 0 .. (DIV_ROUND_UP(Len(name), ENTRY_NAME_MAX) - 1) :
        dset[3 + k].unicode_0_14 = NameSlice(name, k)

\* C12: the k-th Name dentry of a set built by exfat_build_file_dentry_set,
\* and of a set renamed by exfat_update_file_dentry_set, holds code units
\* 15k .. 15k+14 of the name, zero-padded past its length.
C12_NameDentriesHoldName ==
    /\ pc \in {"update", "updated"} =>
            HoldsName(result.built.dentry_set, call.name)
    /\ (pc = "updated" /\ call.new_name # NoName /\ result.updated.ret = 0) =>
            HoldsName(result.updated.dset, call.new_name)

\* the built set with start_clu, valid_size and size patched and the
\* checksum recomputed
Patched(built, start_clu, ccount) ==
    LET d == [built.dentry_set EXCEPT ![2].start_clu = start_clu,
                                      ![2].valid_size = ccount * ClusSize,
                                      ![2].size = ccount * ClusSize]
    IN  [d EXCEPT ![1].checksum = calc_dentry_set_checksum(d, built.dentry_count)]

\* C13: exfat_update_file_dentry_set applied with the same name to the set
\* built by exfat_build_file_dentry_set succeeds and yields the built set
\* with start_clu, valid_size and size patched and the checksum recomputed.
C13_BuildUpdateRoundTrip ==
    (pc = "updated" /\ call.new_name = call.name /\ Len(call.name) >= 1) =>
        /\ result.updated.ret = 0
        /\ result.updated.dset = Patched(result.built, call.start_clu, call.ccount)

\* the heap clusters clear in both bitmaps of the call
FreeInBoth ==
    {c \in HeapClusters :
        ~exfat_bitmap_get(call.alloc, c) /\ ~exfat_bitmap_get(call.disk, c)}

Least(S) == CHOOSE c \in S : \A d \in S : c <= d

\* C15: find_empty_cluster returns 0 with the first cluster at or after the
\* start hint, or else the first one from cluster 2 on, that is clear in both
\* bitmaps, and returns -ENOSPC exactly when no heap cluster is clear in both.
C15_FindEmptyCluster ==
    pc = "found" =>
        /\ result.ret \in {0, -ENOSPC}
        /\ result.ret = -ENOSPC <=> FreeInBoth = {}
        /\ result.ret = 0 =>
                result.new_clu =
                    IF \E c \in FreeInBoth : c >= call.start
                    THEN Least({c \in FreeInBoth : c >= call.start})
                    ELSE Least(FreeInBoth)

\* a search that wrapped around to a cluster below the hint, past a cluster
\* clear in memory and set on disk
C15_Witness ==
    /\ pc = "found"
    /\ result.ret = 0
    /\ result.new_clu < call.start
    /\ \E c \in HeapClusters :
        c >= call.start /\ ~exfat_bitmap_get(call.alloc, c)

\* the dentries of the directory of the call, in file order
RECURSIVE DirSlots(_, _)
DirSlots(clus, n) ==
    IF n = 0 THEN <<>> ELSE dirs[clus] \o DirSlots(fat[clus], n - 1)

LookupDir == DirSlots(call.parent.first_clus, call.parent.size \div ClusSize)

IsFreeDe(de) == de.type = EXFAT_LAST \/ de.type < 128

\* the set at slot k matches the filter of the call
MatchAt(k) ==
    /\ LookupDir[k].type = call.filter.type
    /\ call.filter.has_filter =>
          /\ k + 2 <= Len(LookupDir)
          /\ LookupDir[k + 1].type = EXFAT_STREAM
          /\ LookupDir[k + 2].type = EXFAT_NAME
          /\ SubSeq(LookupDir[k + 2].unicode_0_14, 1, Len(call.filter.param))
                = call.filter.param

NoMatch == \A k \in 1 .. Len(LookupDir) : ~MatchAt(k)

\* the first slot of the run of free dentries the directory ends with
TrailStart ==
    CHOOSE k \in 1 .. Len(LookupDir) :
        /\ \A j \in k .. Len(LookupDir) : IsFreeDe(LookupDir[j])
        /\ k > 1 => ~IsFreeDe(LookupDir[k - 1])

\* the device offset of slot k of the directory of the call
SlotOffset(k) ==
    LET c == IF k <= ClusSize THEN F ELSE F + 2
    IN  (c - EXFAT_FIRST_CLUSTER) * ClusSize * DENTRY_SIZE
        + ((k - 1) % ClusSize) * DENTRY_SIZE

\* C16: when no dentry set of the directory matches the filter,
\* exfat_lookup_dentry_set returns EOF, and out.dentry_d_offset is the device
\* offset of the first slot of the trailing run of free (Last or Deleted)
\* dentries when the directory ends with such a run, EOF otherwise.
C16_LookupFreeSlot ==
    (pc = "looked" /\ NoMatch) =>
        /\ result.ret = -1
        /\ result.dentry_d_offset =
              IF Len(LookupDir) > 0 /\ IsFreeDe(LookupDir[Len(LookupDir)])
              THEN SlotOffset(TrailStart)
              ELSE -1

\* a lookup that failed on a directory of two clusters whose trailing free
\* run starts in the second cluster, after an earlier free run
C16_Witness ==
    /\ pc = "looked" /\ NoMatch
    /\ result.ret = -1
    /\ Len(LookupDir) = 2 * ClusSize
    /\ IsFreeDe(LookupDir[1])
    /\ IsFreeDe(LookupDir[2 * ClusSize])
    /\ TrailStart > ClusSize
    /\ result.dentry_d_offset = SlotOffset(TrailStart)

\* the clusters of the parent after the call, along its chain
RECURSIVE ChainOf(_, _)
ChainOf(clu, n) ==
    IF n = 0 \/ ~heap_clus(clu) THEN <<>>
    ELSE <<clu>> \o ChainOf(fat[clu], n - 1)

AddChain == ChainOf(result.parent.first_clus, result.parent.size \div clus_size)

\* the dentry stored at slot k (from 0) of the parent's file
ParentSlot(k) == dirs[AddChain[(k \div ClusSize) + 1]][(k % ClusSize) + 1]

\* the set of the call crosses a cluster boundary of the parent
AddCrosses ==
    /\ call.loc.file_offset < call.parent.size
    /\ (call.loc.file_offset % clus_size) + call.dcount * DENTRY_SIZE > clus_size

\* C14: when the dentry set written by exfat_add_dentry_set crosses a cluster
\* boundary of the parent directory, at any position in the directory, the
\* dentries stored in the parent's consecutive clusters along its chain from
\* the location on are the set, and no slot outside the parent's clusters is
\* written with the set.
C14_SplitAtClusterBoundary ==
    (pc = "added" /\ result.ret = 0 /\ AddCrosses) =>
        /\ \A i \in 1 .. call.dcount :
              LET k == call.loc.file_offset \div DENTRY_SIZE + i - 1
              IN  /\ k < Len(AddChain) * ClusSize
                  /\ ParentSlot(k) = call.dset[i]
        /\ \A sl \in result.slots : \E j \in 1 .. Len(AddChain) : AddChain[j] = sl[1]

\* the clusters of the range of the call
RangeClusters == call.start_clus .. (call.start_clus + call.count - 1)

\* C17: exfat_bitmap_set_range(start, count) sets the bit of every cluster of
\* start .. start + count - 1 and no other bit when all of these clusters lie
\* in the heap, and leaves the bitmap unchanged when start or the last cluster
\* of the range lies outside the heap.
C17_SetRange ==
    pc = "ranged" =>
        /\ (\A c \in RangeClusters : heap_clus(c)) =>
              result = [c \in DOMAIN call.bitmap |->
                          call.bitmap[c] \/ c \in RangeClusters]
        /\ (~heap_clus(call.start_clus)
            \/ ~heap_clus(call.start_clus + call.count - 1)) =>
              result = call.bitmap

\* the upcased form of a name
Upcased(name) == [i \in 1 .. Len(name) |-> upcase_table(name[i])]

\* C18 as stated: exfat_calc_name_hash is a function of the upcased name and
\* returns different values for two names whose upcased forms differ.
C18_HashInjective ==
    pc = "hashed" =>
        /\ Upcased(call.a) = Upcased(call.b) => result.a = result.b
        /\ Upcased(call.a) # Upcased(call.b) => result.a # result.b

\* C18, amended: exfat_calc_name_hash is a function of the upcased name with
\* values of 16 bits: two names with the same upcased form get the same hash.
C18_HashOfUpcasedName ==
    pc = "hashed" =>
        /\ Upcased(call.a) = Upcased(call.b) => result.a = result.b
        /\ result.a \in 0 .. 65535 /\ result.b \in 0 .. 65535

\* two names that differ in case only, hashed to the same value
C18_Witness ==
    /\ pc = "hashed"
    /\ call.a # call.b
    /\ Upcased(call.a) = Upcased(call.b)
    /\ result.a = result.b

\* C19: read_boot_region rejects every boot record whose clu_count times the
\* cluster size, taken as an exact integer, exceeds the device size, for
\* every clu_count and every cluster size up to the limit.
C19_RejectsTooManyClusters ==
    (pc = "boot_sized"
     /\ EXFAT_CLUSTER_SIZE(call.bsx) <= 2 ^ MaxClusShift
     /\ call.bsx.clu_count * EXFAT_CLUSTER_SIZE(call.bsx) > call.size)
        => result # 0

\* C20: when the wrapper runs with a time limit and the fsck child has not
\* exited when the timer expires, whatever the position of the wrapper at the
\* expiry, the wrapper has sent SIGTERM to the child, has reaped it and exits
\* with the timeout status 161.
C20_TimeoutKillsFsck ==
    (pc = "exited" /\ webos.expired_running) =>
        /\ webos.sigterm
        /\ webos.child = "reaped"
        /\ webos.exit_status = EXIT_TIMEOUT

\* C22: read_children terminates: each iteration of its scan loop either
\* ends the scan or advances the iterator by at least one dentry, also when
\* read_file returns an error.
C22_ScanAdvances ==
    [][pc = "scan" => (pc' # "scan" \/ de_iter'.pos > de_iter.pos)]_vars

\* C23: for every File dentry that read_children comes to, the iterator is
\* advanced by exactly 1 + num_ext dentries before the next entry is examined.
C23_AdvanceBySet ==
    [][(/\ pc = "scan"
        /\ exfat_de_iter_get(de_iter, 0).ret = 0
        /\ exfat_de_iter_get(de_iter, 0).dentry.type = EXFAT_FILE)
          => de_iter'.pos
                = de_iter.pos + 1 + exfat_de_iter_get(de_iter, 0).dentry.num_ext]_vars

\* C29: truncation never grows a file: a step of the scan leaves no stream
\* dentry of the directory with a size larger than it had.
C29_TruncationNeverGrows ==
    [][pc = "scan" =>
          \A i \in DOMAIN de_iter.buf :
              de_iter'.buf[i].size <= de_iter.buf[i].size]_vars

\* the clusters of the chain a stream dentry describes: count clusters from
\* clu on, through the FAT or, for a NoFatChain stream, consecutive
RECURSIVE StreamChain(_, _, _)
StreamChain(contiguous, clu, count) ==
    IF count = 0 \/ ~heap_clus(clu) THEN {}
    ELSE {clu} \cup StreamChain(contiguous,
                                IF contiguous THEN clu + 1 ELSE fat[clu],
                                count - 1)

\* the stream dentries of the dentry sets stored in the directory at first
\* cluster d, as the volume holds them
StreamsOf(d) ==
    {dirs[d][i + 1] : i \in {k \in 1 .. (Len(dirs[d]) - 1) :
                                /\ dirs[d][k].type = EXFAT_FILE
                                /\ dirs[d][k + 1].type = EXFAT_STREAM}}

\* the directories of the volume: the root and the directories whose dentry
\* set the root holds
DirsOnVolume ==
    {RootClus}
    \cup {dirs[RootClus][k + 1].start_clu :
            k \in {k \in 1 .. (Len(dirs[RootClus]) - 1) :
                      /\ dirs[RootClus][k].type = EXFAT_FILE
                      /\ HasFlag(dirs[RootClus][k].attr, ATTR_SUBDIR)
                      /\ dirs[RootClus][k + 1].type = EXFAT_STREAM
                      /\ dirs[RootClus][k + 1].size > 0
                      /\ heap_clus(dirs[RootClus][k + 1].start_clu)}}

\* the clusters in use: those of the chains of the dentry sets on the volume
InUse ==
    UNION {UNION {StreamChain(HasFlag(s.flags, EXFAT_SF_CONTIGUOUS), s.start_clu,
                              DIV_ROUND_UP(s.size, ClusSize)) :
                    s \in StreamsOf(d)} : d \in DirsOnVolume}

\* C21: reclamation never frees a cluster that is still in use: the step of
\* write_dirty_fat and write_dirty_bitmap leaves the FAT entry and the on-disk
\* bitmap bit of every cluster in the chain of a dentry set on the volume as
\* they were.
C21_ReclaimKeepsInUse ==
    [][(pc = "dirs" /\ dir_list = <<>>) =>
          \A c \in InUse : fat'[c] = fat[c] /\ bitmap_dev'[c] = bitmap_dev[c]]_vars

(***************************************************************************)
(* write_dirty_fat on its own: a FAT of NClus + 2 entries, entries 0 and 1 *)
(* included, and any alloc_bitmap.                                         *)
(***************************************************************************)
FatEntries == 0 .. (EXFAT_FIRST_CLUSTER + NClus - 1)

InitFatPass ==
    /\ pc = "fat_pass"
    /\ \E f \in [FatEntries -> {EXFAT_FREE_CLUSTER, EXFAT_EOF_CLUSTER}],
          used \in SUBSET HeapClusters :
          call = [fat |-> f, alloc |-> Bits(used)]
    /\ result = NoCall
    /\ LibRest
    /\ options = "yes"
    /\ fat = SysFat
    /\ dirs = NoItems

WriteDirtyFat ==
    /\ pc = "fat_pass"
    /\ result' = write_dirty_fat(call.fat, call.alloc)
    /\ pc' = "fat_passed"
    /\ UNCHANGED call
    /\ LibUnchanged

NextFatPass == WriteDirtyFat

SpecFatPass == InitFatPass /\ [][NextFatPass]_vars

\* C24: after write_dirty_fat returns success the FAT entry of every heap
\* cluster whose alloc_bitmap bit is clear is free, the FAT entry of every
\* heap cluster whose bit is set is unchanged, and FAT entries 0 and 1 are
\* unchanged.
C24_FatPassFrame ==
    (pc = "fat_passed" /\ result.ret = 0) =>
        /\ \A c \in HeapClusters :
              result.fat[c] = IF call.alloc[c] THEN call.fat[c]
                              ELSE EXFAT_FREE_CLUSTER
        /\ result.fat[0] = call.fat[0]
        /\ result.fat[1] = call.fat[1]

\* a pass that freed the entry of an unmarked cluster in the first and in the
\* last window, kept the entry of a marked one, with entries 0 and 1 in use
C24_Witness ==
    /\ pc = "fat_passed"
    /\ result.ret = 0
    /\ call.fat[0] = EXFAT_EOF_CLUSTER
    /\ call.fat[1] = EXFAT_EOF_CLUSTER
    /\ ~call.alloc[EXFAT_FIRST_CLUSTER]
    /\ call.fat[EXFAT_FIRST_CLUSTER] = EXFAT_EOF_CLUSTER
    /\ ~call.alloc[EXFAT_FIRST_CLUSTER + NClus - 1]
    /\ call.fat[EXFAT_FIRST_CLUSTER + NClus - 1] = EXFAT_EOF_CLUSTER
    /\ \E c \in HeapClusters : call.alloc[c] /\ call.fat[c] = EXFAT_EOF_CLUSTER

\* the cluster indexes that the loop of check_clus_chain hands to
\* exfat_bitmap_get and exfat_bitmap_set, from cluster clus on
RECURSIVE WalkBitmapAccesses(_, _, _, _)
WalkBitmapAccesses(node, clus, count, alloc) ==
    LET max_count == DIV_ROUND_UP(node.size, ClusSize)
        r == get_inode_next_clus(node, clus)
        goes_on == /\ ~exfat_bitmap_get(alloc, clus)
                   /\ exfat_bitmap_get(disk_bitmap, clus)
                   /\ r.ret = 0
                   /\ (node.is_contiguous \/ heap_clus(r.next)
                       \/ r.next = EXFAT_EOF_CLUSTER)
    IN  IF clus = EXFAT_EOF_CLUSTER \/ count >= max_count THEN {}
        ELSE {clus} \cup
             (IF goes_on
              THEN WalkBitmapAccesses(node, r.next, count + 1,
                                      exfat_bitmap_set(alloc, clus))
              ELSE {})

\* those of one call of check_clus_chain
chain_bitmap_accesses(node, alloc) ==
    IF \/ node.size = 0
       \/ ~heap_clus(node.first_clus)
    THEN {}
    ELSE WalkBitmapAccesses(node, node.first_clus, 0, alloc)

\* C30: every allocation-bitmap access of check_clus_chain uses a valid heap
\* cluster index, for contiguous inodes as well as FAT-chained ones: on every
\* File dentry set that read_children hands to check_inode, the indexes the
\* loop looks up and sets are heap clusters.
C30_BitmapIndexInHeap ==
    (/\ pc = "scan"
     /\ exfat_de_iter_get(de_iter, 0).ret = 0
     /\ exfat_de_iter_get(de_iter, 0).dentry.type = EXFAT_FILE)
        => \A ans \in Answers :
              LET rd == read_file_dentries(de_iter, ans)
              IN  rd.ret = 0 =>
                    \A c \in chain_bitmap_accesses(rd.node, alloc_bitmap) :
                        heap_clus(c)

(***************************************************************************)
(* exfat_alloc_cluster and exfat_map_cluster on their own: an inode with a *)
(* dentry set, FAT-chained (clusters F, F + 2) or contiguous (F, F + 1),   *)
(* whose size is that of its chain, one byte less, or one cluster more.    *)
(***************************************************************************)
InodeClusters(contiguous, nclus) ==
    IF contiguous THEN [i \in 1 .. nclus |-> F + i - 1] ELSE ParentClusters(nclus)

InodeSizes(nclus) ==
    IF nclus = 0 THEN {0}
    ELSE {nclus * clus_size, nclus * clus_size - 1, (nclus + 1) * clus_size}

InitAlloc ==
    /\ pc = "alloc"
    /\ \E nclus \in 0 .. 2, contiguous \in BOOLEAN,
          start_clu \in {EXFAT_EOF_CLUSTER, F},
          others \in {{}, {F + 1}, HeapClusters} :
        \E size \in InodeSizes(nclus) :
          LET chain == InodeClusters(contiguous, nclus)
              mine == {chain[i] : i \in 1 .. nclus}
          IN
          /\ call = [inode |->
                        [first_clus |-> IF nclus = 0 THEN 0 ELSE F,
                         size |-> size,
                         is_contiguous |-> contiguous,
                         dentry_set |-> ParentSet.dentry_set,
                         dentry_count |-> ParentSet.dentry_count,
                         dev_offset |-> exfat_c2o(RootClus) + DENTRY_SIZE],
                     chain |-> chain,
                     alloc |-> Bits(mine \cup SysClus \cup others),
                     start_clu |-> start_clu]
          /\ dirs = [c \in HeapClusters |->
                       [q \in 1 .. ClusSize |->
                          IF c \in mine THEN LastDe ELSE OtherDe]]
          /\ fat = [c \in HeapClusters |->
                      IF c \in mine /\ contiguous THEN EXFAT_FREE_CLUSTER
                      ELSE IF c = F /\ nclus = 2 THEN F + 2
                      ELSE IF c \in mine \cup SysClus \cup others
                      THEN EXFAT_EOF_CLUSTER
                      ELSE EXFAT_FREE_CLUSTER]
          /\ alloc_bitmap = Bits(mine \cup SysClus \cup others)
          /\ disk_bitmap = Bits(mine \cup SysClus \cup others)
    /\ result = NoCall
    /\ webos = NoWrapper
    /\ options = "yes"
    /\ fault = NoFault
    /\ boot = [main |-> CleanBoot, backup |-> CleanBoot]
    /\ bs = CleanBoot
    /\ bitmap_dev = Bits(SysClus)
    /\ root = alloc_exfat_inode(0)
    /\ dir_list = <<>>
    /\ de_iter = NullIter
    /\ dirty = FALSE
    /\ dirty_fat = FALSE
    /\ exfat_stat = [dir_count |-> 0, file_count |-> 0, error_count |-> 0,
                     fixed_count |-> 0]
    /\ ret = 0
    /\ exit_code = -1
    /\ hist = NoHist

ExfatAllocCluster ==
    /\ pc = "alloc"
    /\ \E r \in {exfat_alloc_cluster(
                    [dev |-> dirs, fat |-> fat, alloc |-> alloc_bitmap,
                     start_clu |-> call.start_clu, inode |-> call.inode])} :
        /\ result' = [ret |-> r.ret, inode |-> r.st.inode, new_clu |-> r.new_clu,
                      start_clu |-> r.st.start_clu, fat_w |-> r.fat_w]
        /\ dirs' = r.st.dev
        /\ fat' = r.st.fat
        /\ alloc_bitmap' = r.st.alloc
    /\ pc' = "allocated"
    /\ UNCHANGED <<call, webos, options, fault, boot, bitmap_dev, bs, disk_bitmap,
                   root, dir_list, de_iter, dirty, dirty_fat, exfat_stat, ret,
                   exit_code, hist>>

ExfatMapCluster ==
    /\ pc = "alloc"
    /\ result' = exfat_map_cluster(fat, call.inode, -1)
    /\ pc' = "mapped"
    /\ UNCHANGED call
    /\ LibUnchanged

NextAlloc == ExfatAllocCluster \/ ExfatMapCluster

SpecAlloc == InitAlloc /\ [][NextAlloc]_vars

\* the clusters a walk of at most n steps from clu with get_inode_next_clus
\* visits
RECURSIVE InodeWalk(_, _, _)
InodeWalk(inode, clu, n) ==
    IF n = 0 \/ ~heap_clus(clu) THEN <<>>
    ELSE <<clu>> \o InodeWalk(inode, get_inode_next_clus(inode, clu).next, n - 1)

\* C25: after exfat_alloc_cluster succeeds on an inode, FAT-chained or
\* contiguous, the inode's size has grown by one cluster, the new cluster is
\* set in alloc_bitmap, and the walk from first_clus with get_inode_next_clus
\* visits size / C clusters of which the last is the new cluster.
C25_AllocExtendsChain ==
    (pc = "allocated" /\ result.ret = 0) =>
        LET n == result.inode.size \div clus_size
            walk == InodeWalk(result.inode, result.inode.first_clus,
                              IF result.inode.is_contiguous THEN n ELSE NClus + 1)
        IN  /\ result.inode.size = call.inode.size + clus_size
            /\ alloc_bitmap[result.new_clu]
            /\ Len(walk) = n
            /\ walk[n] = result.new_clu

\* C26: exfat_map_cluster(inode, EOF) returns 0 with the last cluster of the
\* inode for every inode of size > 0 whose chain consists of ceil(size / C)
\* valid heap clusters, whether or not the size is a multiple of C.
C26_MapLastCluster ==
    (/\ pc = "mapped"
     /\ call.inode.size > 0
     /\ Len(call.chain) = DIV_ROUND_UP(call.inode.size, clus_size))
        => /\ result.ret = 0
           /\ result.clu = call.chain[Len(call.chain)]

\* C27: every FAT write targets the slot of a valid heap cluster: each
\* set_fat of exfat_alloc_cluster, for the new cluster and for the last
\* cluster that exfat_map_cluster returned, is made with a heap cluster index.
C27_SetFatInHeap ==
    pc = "allocated" =>
        \A i \in DOMAIN result.fat_w : heap_clus(result.fat_w[i].clus)

\* C28: when exfat_alloc_cluster returns an error the allocation had no
\* effect: no FAT slot was written, the inode's size, first_clus and dentry
\* set are as they were, and no alloc_bitmap bit was set.
C28_FailedAllocNoEffect ==
    (pc = "allocated" /\ result.ret # 0) =>
        /\ result.fat_w = <<>>
        /\ result.inode.size = call.inode.size
        /\ result.inode.first_clus = call.inode.first_clus
        /\ result.inode.dentry_set = call.inode.dentry_set
        /\ alloc_bitmap = call.alloc

(***************************************************************************)
(* The cluster-chain walks on their own, over FATs that are cycles through *)
(* the heap, whole or with one slot changed: root_get_clus_count an        *)
(* iteration at a step, the loop of check_clus_chain in one step.  The     *)
(* bits of the on-disk bitmap past the last cluster are arbitrary.         *)
(***************************************************************************)
CycleFat(k) ==
    [c \in HeapClusters |->
        EXFAT_FIRST_CLUSTER + ((c - EXFAT_FIRST_CLUSTER + k) % NClus)]

WalkFats ==
    {CycleFat(k) : k \in 1 .. (NClus - 1)}
    \cup {[CycleFat(k) EXCEPT ![c] = v] :
            k \in 1 .. (NClus - 1), c \in HeapClusters,
            v \in {EXFAT_EOF_CLUSTER, EXFAT_FREE_CLUSTER,
                   EXFAT_FIRST_CLUSTER + NClus, RootClus}}

WalkNodes ==
    {[alloc_exfat_inode(0) EXCEPT !.first_clus = c, !.size = s,
                                  !.is_contiguous = b] :
        c \in {RootClus, F}, s \in {ClusSize, 3 * ClusSize, (NClus + 2) * ClusSize},
        b \in BOOLEAN}

InitWalk ==
    /\ pc = "walk"
    /\ fat \in WalkFats
    /\ \E pad \in BOOLEAN :
          disk_bitmap = [c \in BitmapSlots |-> c \in HeapClusters \/ pad]
    /\ \E used \in {{}, SysClus} :
          \/ \E node \in WalkNodes :
                call = [kind |-> "file", node |-> node, alloc |-> Bits(used)]
          \/ \E c \in {RootClus, F} :
                call = [kind |-> "root",
                        node |-> [alloc_exfat_inode(ATTR_SUBDIR) EXCEPT
                                    !.first_clus = c],
                        alloc |-> Bits(used)]
    /\ result = NoCall
    /\ webos = NoWrapper
    /\ options = "ask"
    /\ fault = NoFault
    /\ boot = [main |-> CleanBoot, backup |-> CleanBoot]
    /\ bs = CleanBoot
    /\ bitmap_dev = Bits(SysClus)
    /\ alloc_bitmap = Bits({})
    /\ dirs = NoItems
    /\ root = alloc_exfat_inode(0)
    /\ dir_list = <<>>
    /\ de_iter = NullIter
    /\ dirty = FALSE
    /\ dirty_fat = FALSE
    /\ exfat_stat = [dir_count |-> 0, file_count |-> 0, error_count |-> 0,
                     fixed_count |-> 0]
    /\ ret = 0
    /\ exit_code = -1
    /\ hist = NoHist

\* one iteration of root_get_clus_count; iters counts the iterations begun
RootGetClusCountIter ==
    /\ pc \in {"walk", "root_walk"}
    /\ call.kind = "root"
    /\ \E cur \in {IF pc = "walk"
                   THEN [clus |-> call.node.first_clus, count |-> 0,
                         alloc |-> call.alloc, iters |-> 0]
                   ELSE result} :
        /\ cur.iters <= NClus + 1
        /\ \E s \in {root_iter(call.node, cur.clus, cur.count, cur.alloc)} :
            /\ result' = [clus |-> s.clus, count |-> s.count, alloc |-> s.alloc,
                          iters |-> cur.iters + 1, ok |-> s.ok]
            /\ pc' = IF s.done THEN "walked" ELSE "root_walk"
    /\ UNCHANGED call
    /\ LibUnchanged

\* the loop of check_clus_chain on a node whose first cluster passed
CheckClusChainLoop ==
    /\ pc = "walk"
    /\ call.kind = "file"
    /\ heap_clus(call.node.first_clus)
    /\ \E ans \in Answers :
          result' = Walk(call.node, call.node.first_clus, EXFAT_EOF_CLUSTER, 0,
                         call.alloc, ans)
    /\ pc' = "walked"
    /\ UNCHANGED call
    /\ LibUnchanged

NextWalk == RootGetClusCountIter \/ CheckClusChainLoop

SpecWalk == InitWalk /\ [][NextWalk]_vars

C31_WitnessFile ==
    /\ pc = "walked"
    /\ call.kind = "file"
    /\ result.code = "ER_FILE_DUPLICATED_CLUS"
    /\ result.count > 1
    /\ fat \in {CycleFat(k) : k \in 1 .. (NClus - 1)}


(***************************************************************************)
(* The queue of directories: exfat.dir_list between read_children and      *)
(* exfat_filesystem_check.                                                 *)
(***************************************************************************)
\* the step of read_children on the current dentry takes the error exit
ScanAborted ==
    LET g == exfat_de_iter_get(de_iter, 0)
    IN  \/ g.ret # 0 /\ g.ret # -1
        \/ /\ g.ret = 0
           /\ g.dentry.type = EXFAT_VOLUME
           /\ g.dentry.num_ext > VOLUME_LABEL_MAX_LEN

\* a scan step accepted a directory dentry set
DirAccepted == pc = "scan" /\ exfat_stat'.dir_count = exfat_stat.dir_count + 1

AfterDirs == {"sync", "exit", "done"}

\* C32 as stated: every directory dentry set that read_file accepts is
\* appended to dir_list behind its parent; the directory at the head is the
\* one handed to read_children, and when read_children returns, just that
\* directory leaves the list, so that every queued directory is handed to
\* read_children once, in the order of queueing, also when the scan of
\* another directory fails; the list is empty when exfat_filesystem_check
\* returns.
C32_AcceptedDirsQueued ==
    /\ [][DirAccepted => dir_list' = Append(dir_list, hist'.last[1].node)]_vars
    /\ [][(pc = "scan" /\ pc' = "dirs") => dir_list' = Tail(dir_list)]_vars
    /\ [](pc \in AfterDirs => dir_list = <<>>)

\* C32, amended: a directory dentry set that read_file accepts is appended
\* to dir_list behind its parent when the size left to it is not zero, and
\* no other scan step changes the list; the directory at the head is the
\* one handed to read_children; when read_children returns, that directory
\* leaves the list, and with it, on the error exit, the directories it
\* queued; a directory that cannot be opened leaves the list; the list is
\* empty when exfat_filesystem_check returns.
C32_QueuedDirsScanned ==
    /\ [](pc = "scan" => dir_list # <<>> /\ de_iter.parent = Head(dir_list))
    /\ [][(pc = "scan" /\ pc' = "scan") =>
            IF DirAccepted /\ hist'.last[1].node.size # 0
            THEN /\ dir_list' = Append(dir_list, hist'.last[1].node)
                 /\ hist'.last[1].node.parent = Head(dir_list).first_clus
            ELSE dir_list' = dir_list]_vars
    /\ [][(pc = "scan" /\ pc' = "dirs") =>
            dir_list' = IF ScanAborted
                        THEN SelectSeq(Tail(dir_list),
                                       LAMBDA n : n.parent # Head(dir_list).first_clus)
                        ELSE Tail(dir_list)]_vars
    /\ [][(pc = "dirs" /\ pc' = "scan") => dir_list' = dir_list]_vars
    /\ [][(pc = "dirs" /\ pc' = "dirs") => dir_list' = Tail(dir_list)]_vars
    /\ [](pc \in AfterDirs => dir_list = <<>>)

\* the subdirectory of the root is scanned, after the root left the list
C32_Witness ==
    /\ pc = "scan"
    /\ exfat_stat.dir_count = 2
    /\ Len(dir_list) = 1
    /\ de_iter.parent.parent = RootClus
    /\ de_iter.pos > 1

\* the scan of the root was aborted behind the subdirectory it had queued
C32_WitnessAborted ==
    /\ pc = "dirs"
    /\ exfat_stat.dir_count = 2
    /\ dir_list = <<>>
    /\ ret = -EINVAL
    /\ \E ch \in hist.chains : /\ HasFlag(ch.node.attr, ATTR_SUBDIR)
                               /\ ch.node.size # 0
                               /\ ch.node.parent = RootClus


\* C33: for a dentry set that read_file took (no error left), check_inode
\* returned 0 exactly when no repair was applied to the file and 1 when one
\* was, a truncation included; so the value read_children counts as "fixed"
\* is positive whenever a repair was applied.
C33_InodeReturnValue ==
    hist.last # <<>> =>
        /\ hist.last[1].ret \in {0, 1}
        /\ hist.last[1].ret = 0 <=> hist.last[1].codes = {}


(***************************************************************************)
(* exfat_lookup_file on its own: a directory that holds one file dentry    *)
(* set, looked up under a name of one, two or three Name dentries.         *)
(***************************************************************************)
\* a name of n units: n - 1 times "A", then the unit last
FillName(n, last) == [i \in 1 .. n |-> IF i = n THEN last ELSE 65]

LookNames ==
    {FillName(n, last) :
        n \in {1, 2, ENTRY_NAME_MAX, ENTRY_NAME_MAX + 1, ENTRY_NAME_MAX + 2,
               2 * ENTRY_NAME_MAX + 1},
        last \in {65, 66}}

\* the file dentry set of a name as it is on a volume: the File dentry, the
\* Stream dentry with the length of the name, and one Name dentry for each
\* ENTRY_NAME_MAX units, the last one filled up with zeros
OnDiskSet(name) ==
    LET n == DIV_ROUND_UP(Len(name), ENTRY_NAME_MAX)
        padded == name \o Zeros(n * ENTRY_NAME_MAX - Len(name))
    IN  [i \in 1 .. (2 + n) |->
            IF i = 1
            THEN [type |-> EXFAT_FILE, num_ext |-> 1 + n, checksum |-> 0,
                  attr |-> 0]
            ELSE IF i = 2
            THEN [type |-> EXFAT_STREAM, flags |-> 1, name_len |-> Len(name),
                  valid_size |-> 0, start_clu |-> 0, size |-> 0]
            ELSE [type |-> EXFAT_NAME,
                  unicode_0_14 |-> SubSeq(padded, (i - 3) * ENTRY_NAME_MAX + 1,
                                          (i - 2) * ENTRY_NAME_MAX)]]

\* the name a file dentry set carries: name_len units of its Name dentries
RECURSIVE SetUnits(_, _)
SetUnits(dset, i) ==
    IF i > Len(dset) THEN <<>> ELSE dset[i].unicode_0_14 \o SetUnits(dset, i + 1)

NameOfSet(dset) == SubSeq(SetUnits(dset, 3), 1, dset[2].name_len)

\* exfat_lookup_file: the name as a zero-terminated UTF-16 string is the
\* parameter of filter_lookup_file; 0 and the out fields when a set is found
exfat_lookup_file(parent, name) ==
    LET enc == exfat_utf16_enc(name, Zeros(BufUnits))
        filter == [type |-> EXFAT_FILE, has_filter |-> TRUE,
                   param |-> SubSeq(enc.buf, 1, enc.ret \div 2)]
    IN  IF enc.ret < 0
        THEN [ret |-> enc.ret, dentry |-> LastDe, dentry_count |-> 0,
              dentry_d_offset |-> -1]
        ELSE Bind(exfat_lookup_dentry_set(parent, filter),
                  LAMBDA r : [r EXCEPT !.ret = IF r.ret < 0 THEN r.ret ELSE 0])

InitLookupFile ==
    /\ pc = "lookup_file"
    /\ \E stored \in LookNames, name \in LookNames :
        LET dset == OnDiskSet(stored)
            nclus == DIV_ROUND_UP(Len(dset) + 1, ClusSize)
            fill == dset \o [i \in 1 .. (nclus * ClusSize - Len(dset)) |-> LastDe]
        IN  /\ call = [parent |-> LookupParent(nclus), name |-> name,
                       stored |-> dset]
            /\ dirs = [c \in HeapClusters |->
                         IF c >= F /\ c < F + nclus
                         THEN SubSeq(fill, (c - F) * ClusSize + 1,
                                     (c - F + 1) * ClusSize)
                         ELSE <<>>]
            /\ fat = [c \in HeapClusters |->
                        IF c >= F /\ c < F + nclus - 1 THEN c + 1
                        ELSE IF c < F + nclus THEN EXFAT_EOF_CLUSTER
                        ELSE EXFAT_FREE_CLUSTER]
    /\ result = NoCall
    /\ options = "no"
    /\ LibRest

ExfatLookupFile ==
    /\ pc = "lookup_file"
    /\ \E r \in {exfat_lookup_file(call.parent, call.name)} :
        result' = r
    /\ pc' = "file_looked"
    /\ UNCHANGED call
    /\ LibUnchanged

NextLookupFile == ExfatLookupFile

SpecLookupFile == InitLookupFile /\ [][NextLookupFile]_vars

\* C34: exfat_lookup_file(parent, name) finds a file dentry set only if the
\* full name of that set equals name: same length, same code units.
C34_LookupMatchesFullName ==
    (pc = "file_looked" /\ result.ret = 0) => NameOfSet(call.stored) = call.name

\* C35: whenever exfat_lookup_file finds a set (filter_lookup_file returned
\* 0 for it), out.dentry_count is file.num_ext + 1, the whole dentry set.
C35_DentryCountIsWholeSet ==
    (pc = "file_looked" /\ result.ret = 0) =>
        /\ result.dentry = call.stored[1]
        /\ result.dentry_count = call.stored[1].num_ext + 1


(***************************************************************************)
(* decompress_upcase_table on its own.  A table unit has UpcaseBits bits   *)
(* (16 in the code): the run marker is the unit of all ones and out_len is *)
(* the number of unit values, as in the call of read_upcase_table.  out is *)
(* the part of out_table written so far, oob the indexes written at that   *)
(* are not in out_table, odd whether the number of iterations of the while *)
(* loop made so far is odd.                                                *)
(***************************************************************************)
UpcaseBits == 2
E2BIG == 7

UpcaseUnits == 0 .. (2 ^ UpcaseBits - 1)
UPCASE_RUN == 2 ^ UpcaseBits - 1           \* 0xFFFF
EXFAT_UPCASE_TABLE_CHARS == 2 ^ UpcaseBits \* 0x10000

RECURSIVE UnitSeqs(_)
UnitSeqs(n) ==
    IF n = 0 THEN {<<>>}
    ELSE {<<u>> \o t : u \in UpcaseUnits, t \in UnitSeqs(n - 1)}

\* one iteration of the while loop of decompress_upcase_table at index i:
\* the next i and the entries written, as pairs of index and value
decompress_iter(in_table, in_len, i) ==
    LET ch == in_table[i + 1]
        len == in_table[i + 2]
    IN  IF ch = UPCASE_RUN /\ i + 1 < in_len
        THEN [i |-> i + len,
              writes |-> {<<i + k, (i + k) % (2 ^ UpcaseBits)>> : k \in 0 .. (len - 1)}]
        ELSE [i |-> i + 1, writes |-> {<<i, ch>>}]

\* out_table after the writes that are inside it
Written(out, writes, out_len) ==
    [j \in DOMAIN out \cup {w[1] : w \in {v \in writes : v[1] < out_len}} |->
        IF \E w \in writes : w[1] = j
        THEN (CHOOSE w \in writes : w[1] = j)[2]
        ELSE out[j]]

InitDecompress ==
    /\ pc = "decompress"
    /\ \E in_len \in 0 .. (EXFAT_UPCASE_TABLE_CHARS + 1) :
       \E in_table \in UnitSeqs(in_len) :
          call = [in_table |-> in_table, in_len |-> in_len,
                  out_len |-> EXFAT_UPCASE_TABLE_CHARS]
    /\ result = NoCall
    /\ LibInit

\* the entry of decompress_upcase_table: the check of in_len
DecompressEnter ==
    /\ pc = "decompress"
    /\ IF call.in_len > call.out_len
       THEN /\ result' = [ret |-> -E2BIG, i |-> 0, out |-> <<>>, oob |-> {},
                             odd |-> FALSE]
            /\ pc' = "decompressed"
       ELSE /\ result' = [ret |-> 0, i |-> 0, out |-> <<>>, oob |-> {},
                             odd |-> FALSE]
            /\ pc' = "runs"
    /\ UNCHANGED call
    /\ LibUnchanged

\* one iteration of the while loop; a write behind out_table is undefined
\* behaviour: the function goes on or the process is killed
DecompressRun ==
    /\ pc = "runs"
    /\ result.i < call.in_len
    /\ \E s \in {decompress_iter(call.in_table, call.in_len, result.i)} :
       LET outside == {w[1] : w \in {v \in s.writes : v[1] >= call.out_len}}
       IN  /\ result' = [result EXCEPT
                            !.i = s.i,
                            !.out = Written(@, s.writes, call.out_len),
                            !.oob = @ \cup outside,
                            !.odd = ~@]
           /\ pc' \in (IF outside = {} THEN {"runs"} ELSE {"runs", "killed"})
    /\ UNCHANGED call
    /\ LibUnchanged

\* the for loop behind the while loop, and the return
DecompressFill ==
    /\ pc = "runs"
    /\ result.i >= call.in_len
    /\ result' = [result EXCEPT
                    !.i = IF @ < call.out_len THEN call.out_len ELSE @,
                    !.out = Written(@, {<<j, j % (2 ^ UpcaseBits)>> :
                                          j \in result.i .. (call.out_len - 1)},
                                    call.out_len)]
    /\ pc' = "decompressed"
    /\ UNCHANGED call
    /\ LibUnchanged

NextDecompress == DecompressEnter \/ DecompressRun \/ DecompressFill

SpecDecompress == InitDecompress /\ [][NextDecompress]_vars

\* the loops are run for as long as they can go on
SpecDecompressFair == SpecDecompress /\ WF_vars(NextDecompress)

\* C37: decompress_upcase_table terminates for every input table with
\* in_len <= out_len, a run marker followed by a run length of 0 included.
C37_DecompressTerminates == <>(pc \in {"decompressed", "killed"})

\* C38: for every input table with in_len <= out_len, decompress_upcase_table
\* writes no entry outside out_table[0 .. out_len - 1], and when it returns,
\* every one of the out_len entries has been written.
C38_DecompressInBounds ==
    (pc \in {"runs", "decompressed", "killed"} /\ call.in_len <= call.out_len) =>
        /\ result.oob = {}
        /\ pc = "decompressed" => DOMAIN result.out = 0 .. (call.out_len - 1)


\* C39: the wrapper exits with status 0 only if the fsck child terminated
\* normally with exit code 0 (no errors) or 1 (corrected): a child killed by
\* a signal, a failed waitpid or a child that reports an operation error
\* gives a nonzero exit status.
C39_ZeroOnlyForCleanChild ==
    (pc = "exited" /\ webos.exit_status = 0) =>
        webos.child_status \in {FSCK_EXIT_NO_ERRORS, FSCK_EXIT_CORRECTED}


(***************************************************************************)
(* The dentry iterator with its two cluster buffers, on its own.  A        *)
(* directory is a chain of up to IterClus clusters of ClusSize dentries; a *)
(* sector holds SectSize dentries.  A dentry is the number of times it was *)
(* modified.  dev is the directory on the device, buf the two buffers (idx *)
(* the cluster of the chain a buffer holds, 0 for none), pos the dentry at *)
(* index 0 of the window, want the directory with every modification made. *)
(***************************************************************************)
IterClus == 3      \* longest directory chain, in clusters
IterMods == 2      \* most modifications made in one scan
MaxSkip == 3       \* max_skip_dentries

NoBuf == [idx |-> 0, data |-> <<>>, dirty |-> {}]
BufOf(k) == ((k - 1) % 2) + 1
SectOf(j) == (j - 1) \div SectSize

\* the dirty sectors of a buffer written to the device
iter_write(dev, b) ==
    IF b.idx = 0 THEN dev
    ELSE [dev EXCEPT ![b.idx] =
            [j \in 1 .. ClusSize |->
                IF SectOf(j) \in b.dirty THEN b.data[j] ELSE @[j]]]

\* cluster k of a chain of n clusters read into a buffer
iter_load(dev, k, n) ==
    IF k > n THEN NoBuf ELSE [idx |-> k, data |-> dev[k], dirty |-> {}]

\* a buffer reused for cluster k: its dirty sectors are written first
iter_reuse(it, k) ==
    LET b == BufOf(k)
        dev == iter_write(it.dev, it.buf[b])
    IN  IF it.buf[b].idx = k THEN it
        ELSE [it EXCEPT !.dev = dev, !.buf[b] = iter_load(dev, k, it.n)]

\* exfat_de_iter_init: the first cluster is read into the first buffer
iter_init(n) ==
    LET dev == [k \in 1 .. n |-> [j \in 1 .. ClusSize |-> 0]]
    IN  [n |-> n, dev |-> dev, want |-> dev, pos |-> 0, mods |-> 0, ret |-> 0,
         buf |-> <<iter_load(dev, 1, n), NoBuf>>]

\* exfat_de_iter_get_dirty(iter, ith, &dentry): the buffer of the dentry is
\* filled when it holds another cluster, and the sector of the dentry is
\* marked dirty
iter_get_dirty(it, ith) ==
    LET k == ((it.pos + ith) \div ClusSize) + 1
        j == ((it.pos + ith) % ClusSize) + 1
    IN  IF k > it.n THEN it
        ELSE [iter_reuse(it, k) EXCEPT !.buf[BufOf(k)].dirty = @ \cup {SectOf(j)}]

\* exfat_de_iter_advance(iter, skip_dentries): when the window leaves a
\* cluster, the buffer left is written and filled with the next cluster of
\* the chain that is in no buffer
iter_advance(it, skip) ==
    LET old == (it.pos \div ClusSize) + 1
        new == ((it.pos + skip) \div ClusSize) + 1
        moved == [it EXCEPT !.pos = @ + skip]
    IN  IF new = old THEN moved
        ELSE iter_reuse(iter_reuse(moved, new), new + 1)

\* exfat_de_iter_flush: the dirty sectors of both buffers are written
iter_flush(it) ==
    [it EXCEPT !.dev = iter_write(iter_write(@, it.buf[1]), it.buf[2]),
               !.buf = [b \in 1 .. 2 |-> [it.buf[b] EXCEPT !.dirty = {}]]]

\* a faulty exit of read_children that flushes on the normal path only
read_children_exit_out_only(it, rv) ==
    IF rv = 0 THEN [iter_flush(it) EXCEPT !.ret = rv] ELSE [it EXCEPT !.ret = rv]

\* the labels out and err of read_children: the flush, and the return value
read_children_exit(it, rv) == [iter_flush(it) EXCEPT !.ret = rv]

InitIter ==
    /\ pc = "iter"
    /\ \E n \in 1 .. IterClus : call = [n |-> n]
    /\ result = iter_init(call.n)
    /\ LibInit

\* a dentry of the window is fetched with exfat_de_iter_get_dirty and
\* modified
IterGetDirty ==
    /\ pc = "iter"
    /\ result.mods < IterMods
    /\ \E ith \in 0 .. (MaxSkip - 1) :
        LET k == ((result.pos + ith) \div ClusSize) + 1
            j == ((result.pos + ith) % ClusSize) + 1
        IN  /\ k <= result.n
            /\ \E it \in {iter_get_dirty(result, ith)} :
                result' = [it EXCEPT !.buf[BufOf(k)].data[j] = @ + 1,
                                     !.want[k][j] = @ + 1,
                                     !.mods = @ + 1]
    /\ UNCHANGED <<pc, call>>
    /\ LibUnchanged

\* the end of an iteration of read_children: exfat_de_iter_advance
IterAdvance ==
    /\ pc = "iter"
    /\ result.pos < result.n * ClusSize
    /\ \E skip \in 1 .. MaxSkip : result' = iter_advance(result, skip)
    /\ UNCHANGED <<pc, call>>
    /\ LibUnchanged

\* read_children returns: at the end of the directory (out), or on a failed
\* check (err)
ReadChildrenExit ==
    /\ pc = "iter"
    /\ \E rv \in {0, -EINVAL} : result' = read_children_exit(result, rv)
    /\ pc' = "returned"
    /\ UNCHANGED call
    /\ LibUnchanged

NextIter == IterGetDirty \/ IterAdvance \/ ReadChildrenExit

SpecIter == InitIter /\ [][NextIter]_vars

\* C40: with no failed write, every modification made through
\* exfat_de_iter_get_dirty is on the device once its cluster is in no buffer
\* any more (the buffer was reloaded), a modification still in a buffer lies
\* in a sector marked dirty, and when read_children has returned, by its
\* normal exit or its error exit, the device holds every modification.
C40_DirtyDentriesWritten ==
    pc \in {"iter", "returned"} =>
        /\ \A k \in 1 .. result.n :
            LET b == result.buf[BufOf(k)]
            IN  IF b.idx = k
                THEN /\ b.data = result.want[k]
                     /\ \A j \in 1 .. ClusSize :
                            b.data[j] # result.dev[k][j] => SectOf(j) \in b.dirty
                ELSE result.dev[k] = result.want[k]
        /\ pc = "returned" => result.dev = result.want

\* a dentry of the first cluster was modified, its buffer was reloaded with
\* the third cluster, and read_children took the error exit
C40_Witness ==
    /\ pc = "returned"
    /\ result.ret < 0
    /\ result.mods = IterMods
    /\ \E j \in 1 .. ClusSize : result.want[1][j] > 0
    /\ result.buf[1].idx = IterClus
    /\ \E j \in 1 .. ClusSize : result.want[IterClus][j] > 0


(***************************************************************************)
(* fsck run twice: when a run in repair-yes mode has ended with exit code  *)
(* FSCK_EXIT_CORRECTED, fsck is started again on the volume it left.  call *)
(* tells the runs apart: it holds the number of the run in the second one. *)
(***************************************************************************)
InitYes == Init /\ options = "yes"

\* main is entered again: the process state is new, the device is kept
RunAgain ==
    /\ pc = "done"
    /\ call = NoCall
    /\ exit_code = FSCK_EXIT_CORRECTED
    /\ call' = [run |-> 2]
    /\ pc' = "boot"
    /\ bs' = [CleanBoot EXCEPT !.valid = FALSE]
    /\ alloc_bitmap' = Bits({})
    /\ disk_bitmap' = Bits({})
    /\ root' = alloc_exfat_inode(0)
    /\ dir_list' = <<>>
    /\ de_iter' = NullIter
    /\ dirty' = FALSE
    /\ dirty_fat' = FALSE
    /\ exfat_stat' = [dir_count |-> 0, file_count |-> 0, error_count |-> 0,
                      fixed_count |-> 0]
    /\ ret' = 0
    /\ exit_code' = -1
    /\ hist' = NoHist
    /\ UNCHANGED <<result, webos, options, fault, boot, fat, bitmap_dev, dirs>>

NextAgain == Next \/ RunAgain

SpecAgain == InitYes /\ [][NextAgain]_vars

\* C36: in the run that follows a repair-yes run with exit code 1, no
\* inconsistency is detected and no repair is accepted: dirty and dirty_fat
\* stay false, no file is counted as corrupted, and the run ends with exit
\* code 0.  Stated for a device on which every read and write succeeds.
C36_RepairConverges ==
    (call # NoCall /\ fault = NoFault) =>
        /\ ~dirty
        /\ ~dirty_fat
        /\ hist.accepted = {}
        /\ exfat_stat.error_count = 0
        /\ pc = "done" => exit_code = FSCK_EXIT_NO_ERRORS

====
